---- MODULE Spec2Model ----
(***************************************************************************)
(* The EventCallback collector of VtsHalSensorsV2_0TargetTest.cpp and the  *)
(* tests of SensorsHidlTest that drive it and the interface: runFlushTest, *)
(* NoStaleEvents, Activate, SetOperationMode, InjectSensorEventData,       *)
(* CallInitializeTwice and SensorListValid.                                *)
(*                                                                         *)
(* Threads: the delivery threads call onEvent; the test thread calls the   *)
(* getters, the two predicate waits and reset().  Every statement that     *)
(* takes or releases a mutex, touches a map or a condition variable is one *)
(* step, so that every interleaving the locks allow is explored.           *)
(***************************************************************************)
EXTENDS Integers, Sequences, FiniteSets, TLC

\* ------------------------------------------------------------------ bounds
\* onEvent calls made in one run.
MaxEvents == 2
\* Largest numCallsToFlush passed to waitForFlushEvents.
MaxCalls == 1
\* onEvent calls made in one run of the fair specifications.
MaxLiveEvents == 1
\* onEvent calls in a run of the NoStaleEvents scenario.
MaxStaleEvents == 4
\* onEvent calls in a run of runFlushTest.
MaxFlushEvents == 3
\* kFlushes (line 645, 5 in the source) as the model runs it.
kFlushes == 2
\* Calls of SensorsHidlTest::activate in a run of the test fixture.
MaxActivateCalls == 3
\* Events the interface produces in a run of CallInitializeTwice.
MaxSessionEvents == 3
\* Calls of registerDirectChannel and unregisterDirectChannel in a run.
MaxChannelCalls == 3

\* ------------------------------------------------------------------ inputs
Handles == {1, 2}
Deliverers == {"d1", "d2"}
Tester == "t"
NoThread == "none"

\* SensorType values an event can carry; ACCELEROMETER stands for every
\* type that is not ADDITIONAL_INFO.
SensorTypes == {"ACCELEROMETER", "ADDITIONAL_INFO"}
\* MetaDataEventType read through event.u.meta.what; OTHER stands for every
\* value that is not META_DATA_FLUSH_COMPLETE (for a data event the union
\* holds the measurement, so the field reads as either).
MetaWhats == {"META_DATA_FLUSH_COMPLETE", "OTHER"}

\* The sensor lists handed to the waits.
SensorLists == {<<1>>, <<1, 2>>}
\* timeoutMs: 0 (already elapsed at the call) or positive.
Timeouts == {0, 1}

NoEvent == [sensorHandle |-> 0, sensorType |-> "ACCELEROMETER",
            what |-> "OTHER", timestamp |-> 0]
NoOp == [op |-> "none"]
\* No test helper is running.
NoArgs == [sensors |-> <<>>]
\* Result values the interface returns.
Results == {"OK", "BAD_VALUE"}

\* -------------------------------------------------------------- std::map
EmptyMap == <<>>

Put_Clobber(m, h, v) == [k \in (DOMAIN m) \cup {h} |-> v]
Put(m, h, v) == [k \in (DOMAIN m) \cup {h} |-> IF k = h THEN v ELSE m[k]]

\* The value std::map<int32_t,int32_t>::operator[] refers to: the stored
\* one, or a value-initialised 0 for a key that is not there.
FlushMapIndex_Unchecked(m, h) == IF h \in DOMAIN m THEN m[h] ELSE -1
FlushMapIndex(m, h) == IF h \in DOMAIN m THEN m[h] ELSE 0

\* The same for std::map<int32_t, std::vector<Event>>: an empty vector.
EventMapIndex(m, h) == IF h \in DOMAIN m THEN m[h] ELSE <<>>

\* operator[] inserts the key it did not find.
FlushMapTouch(m, h) == Put(m, h, FlushMapIndex(m, h))
EventMapTouch(m, h) == Put(m, h, EventMapIndex(m, h))

\* std::map::clear
ClearMap_Keep(m) == m
ClearMap(m) == EmptyMap

\* std::vector::push_back
PushBack_Front(s, e) == <<e>> \o s
PushBack(s, e) == Append(s, e)

\* ------------------------------------------------- std::recursive_mutex
FreeMutex == [owner |-> NoThread, count |-> 0]

CanAcquire_NoExclusion(m, t) == TRUE
CanAcquire_NotRecursive(m, t) == m.owner = NoThread
\* lock() returns when no other thread owns the mutex; the owner may lock
\* it again.
CanAcquire(m, t) == m.owner \in {NoThread, t}

Acquire(m, t) == [owner |-> t, count |-> m.count + 1]

\* unlock() gives up one level of ownership.
Release(m) == IF m.count <= 1 THEN FreeMutex ELSE [m EXCEPT !.count = @ - 1]

\* ------------------------------------------ std::condition_variable_any
\* notify_all wakes every thread blocked on the condition variable.
NotifyAll_Lost(cv) == cv
NotifyAll(cv) == {}

\* wait_for(lock, d, pred) is  while (!pred()) if (wait_until(..) ==
\* timeout) return pred();  return true;  - it starts with the predicate.
WaitForEntry_WaitFirst(predPc, blockPc) == blockPc
WaitForEntry(predPc, blockPc) == predPc

\* After a false predicate: the call returns if the last wait timed out,
\* and waits again otherwise.
AfterFalsePred_Return(timedOutNow, blockPc) == "return"
AfterFalsePred(timedOutNow, blockPc) == IF timedOutNow THEN "return" ELSE blockPc

\* ------------------------------------------------------- classification
\* onEvent, line 48-49: the event counts as a flush-completion marker.
IsFlushComplete_AnyType(ev) == ev.what = "META_DATA_FLUSH_COMPLETE"
IsFlushComplete(ev) ==
    ev.sensorType = "ADDITIONAL_INFO" /\ ev.what = "META_DATA_FLUSH_COMPLETE"

\* onEvent, line 53: the event is stored as a data event.
IsStored(ev) == ev.sensorType # "ADDITIONAL_INFO"

VARIABLES
    mFlushMap,      \* std::map<int32_t, int32_t>
    mFlushMutex,    \* [owner, count]
    mFlushCV,       \* the threads blocked in mFlushCV.wait
    mEventMap,      \* std::map<int32_t, std::vector<Event>>
    mEventMutex,
    mEventCV,
    dpc,            \* where each delivery thread is in onEvent
    dev,            \* the event it was called with
    dtmp,           \* the count it read for mFlushMap[h]++
    tpc,            \* where the test thread is
    targ,           \* the arguments of its current call
    ti,             \* the predicate's loop index
    expired,        \* the deadline of the current wait has passed
    timedOut,       \* the last wait_until returned cv_status::timeout
    retCount,       \* what the last getFlushCount returned
    retEvents,      \* what the last getEvents returned
    retWait,        \* what wait_for returned in the last wait
    lastOp,         \* the call that returned it
    script,         \* what the test thread does next
    registered,     \* the callback is registered with the environment
    si,             \* the scenario's loop index
    lastEventTimestampMap,
    sensorList,     \* what getSensorsList() returns: the interface's SensorInfo list
    args,           \* the arguments of the test helper that is running
    fi,             \* runFlushTest's loop counter i
    mSensorHandles, \* SensorsHidlTest: the handles activate(h, true) was called with
    mDirectChannelHandles, \* SensorsHidlTest: the channels whose registration succeeded
    failures,       \* the non-fatal (EXPECT_*) failures gtest has recorded
    up,             \* the environments that are set up, in the order of their HidlSetUp
    collecting,     \* the environment collectEvents is collecting from
    collectedEvents, \* what it has collected so far
    windows,        \* history: what each collectEvents call returned
    calls,          \* history: the calls made to the interface, with their results
    nextId,         \* history: onEvent calls so far, plus one
    budget,         \* history: onEvent calls the run may make
    markers,        \* history: markers passed to onEvent, per handle
    lockOrder,      \* history: stored events in mEventMutex order, per handle
    predAtCall,     \* history: the predicate held when the wait was called
    blocked         \* history: the current wait has blocked

collector == <<mFlushMap, mFlushMutex, mFlushCV, mEventMap, mEventMutex, mEventCV>>
delivery == <<dpc, dev, dtmp>>
results == <<retCount, retEvents, retWait>>
test == <<tpc, targ, ti, expired, timedOut, results, lastOp>>
sessions == <<up, collecting, collectedEvents, windows>>
fixture == <<sensorList, args, fi, mSensorHandles, mDirectChannelHandles, calls, failures,
            sessions>>
scenario == <<script, registered, si, lastEventTimestampMap, fixture>>
history == <<nextId, budget, markers, lockOrder, predAtCall, blocked>>
vars == <<collector, delivery, test, scenario, history>>

\* The state after EventCallback's construction, no call made yet.
Constructed ==
    /\ mFlushMap = EmptyMap /\ mFlushMutex = FreeMutex /\ mFlushCV = {}
    /\ mEventMap = EmptyMap /\ mEventMutex = FreeMutex /\ mEventCV = {}
    /\ dpc = [d \in Deliverers |-> "idle"]
    /\ dev = [d \in Deliverers |-> NoEvent]
    /\ dtmp = [d \in Deliverers |-> 0]
    /\ tpc = "idle" /\ targ = NoOp /\ ti = 0
    /\ expired = FALSE /\ timedOut = FALSE
    /\ retCount = 0 /\ retEvents = <<>> /\ retWait = FALSE /\ lastOp = NoOp
    /\ si = 0
    /\ lastEventTimestampMap = EmptyMap
    /\ args = NoArgs /\ fi = 0 /\ mSensorHandles = {} /\ calls = <<>>
    /\ failures = {}
    /\ mDirectChannelHandles = {}
    /\ up = <<"A">> /\ collecting = "none" /\ collectedEvents = <<>> /\ windows = <<>>
    /\ nextId = 1
    /\ markers = [h \in Handles |-> 0]
    /\ lockOrder = [h \in Handles |-> <<>>]
    /\ predAtCall = FALSE /\ blocked = FALSE


\* ---------------------------------------------------------------- onEvent
\* The call itself and the classification of lines 48, 49 and 53, which
\* touch no shared state.  An ADDITIONAL_INFO event that is no flush
\* marker takes neither branch.
OnEvent(d, ev) ==
    /\ dpc[d] = "idle"
    /\ nextId <= budget
    /\ dev' = [dev EXCEPT ![d] = ev]
    /\ IF IsFlushComplete(ev)
         THEN dpc' = [dpc EXCEPT ![d] = "f_lock"]
         ELSE IF IsStored(ev)
           THEN dpc' = [dpc EXCEPT ![d] = "e_lock"]
           ELSE dpc' = [dpc EXCEPT ![d] = "skip"]
    /\ nextId' = nextId + 1
    /\ markers' = IF ev.sensorType = "ADDITIONAL_INFO"
                     /\ ev.what = "META_DATA_FLUSH_COMPLETE"
                    THEN [markers EXCEPT ![ev.sensorHandle] = @ + 1]
                    ELSE markers
    /\ UNCHANGED <<collector, dtmp, test, scenario,
                   budget, lockOrder, predAtCall, blocked>>

\* Line 50: std::unique_lock lock(mFlushMutex).
FlushLock(d) ==
    /\ dpc[d] = "f_lock"
    /\ CanAcquire(mFlushMutex, d)
    /\ mFlushMutex' = Acquire(mFlushMutex, d)
    /\ dpc' = [dpc EXCEPT ![d] = "f_read"]
    /\ UNCHANGED <<mFlushMap, mFlushCV, mEventMap, mEventMutex, mEventCV,
                   dev, dtmp, test, scenario, history>>

\* Line 51, first half: mFlushMap[h] finds or inserts the entry, and the
\* increment loads its value.
FlushRead(d) ==
    /\ dpc[d] = "f_read"
    /\ dtmp' = [dtmp EXCEPT ![d] = FlushMapIndex(mFlushMap, dev[d].sensorHandle)]
    /\ mFlushMap' = FlushMapTouch(mFlushMap, dev[d].sensorHandle)
    /\ dpc' = [dpc EXCEPT ![d] = "f_write"]
    /\ UNCHANGED <<mFlushMutex, mFlushCV, mEventMap, mEventMutex, mEventCV,
                   dev, test, scenario, history>>

\* Line 51, second half: the increment stores the value plus one.
FlushWrite(d) ==
    /\ dpc[d] = "f_write"
    /\ mFlushMap' = Put(mFlushMap, dev[d].sensorHandle, dtmp[d] + 1)
    /\ dpc' = [dpc EXCEPT ![d] = "f_notify"]
    /\ UNCHANGED <<mFlushMutex, mFlushCV, mEventMap, mEventMutex, mEventCV,
                   dev, dtmp, test, scenario, history>>

\* Line 52: mFlushCV.notify_all().
FlushNotify(d) ==
    /\ dpc[d] = "f_notify"
    /\ mFlushCV' = NotifyAll(mFlushCV)
    /\ dpc' = [dpc EXCEPT ![d] = "f_unlock"]
    /\ UNCHANGED <<mFlushMap, mFlushMutex, mEventMap, mEventMutex, mEventCV,
                   dev, dtmp, test, scenario, history>>

\* Line 53: the lock goes out of scope, onEvent returns.
FlushUnlock(d) ==
    /\ dpc[d] = "f_unlock"
    /\ mFlushMutex' = Release(mFlushMutex)
    /\ dpc' = [dpc EXCEPT ![d] = "idle"]
    /\ dev' = [dev EXCEPT ![d] = NoEvent]
    /\ dtmp' = [dtmp EXCEPT ![d] = 0]
    /\ UNCHANGED <<mFlushMap, mFlushCV, mEventMap, mEventMutex, mEventCV,
                   test, scenario, history>>

\* Line 54: std::unique_lock lock(mEventMutex).
EventLock(d) ==
    /\ dpc[d] = "e_lock"
    /\ CanAcquire(mEventMutex, d)
    /\ mEventMutex' = Acquire(mEventMutex, d)
    /\ dpc' = [dpc EXCEPT ![d] = "e_push"]
    /\ lockOrder' = [lockOrder EXCEPT ![dev[d].sensorHandle] = Append(@, dev[d])]
    /\ UNCHANGED <<mFlushMap, mFlushMutex, mFlushCV, mEventMap, mEventCV,
                   dev, dtmp, test, scenario,
                   nextId, budget, markers, predAtCall, blocked>>

\* Line 55: mEventMap[h].push_back(event).
EventPush(d) ==
    /\ dpc[d] = "e_push"
    /\ mEventMap' = Put(mEventMap, dev[d].sensorHandle,
                        PushBack(EventMapIndex(mEventMap, dev[d].sensorHandle), dev[d]))
    /\ dpc' = [dpc EXCEPT ![d] = "e_notify"]
    /\ UNCHANGED <<mFlushMap, mFlushMutex, mFlushCV, mEventMutex, mEventCV,
                   dev, dtmp, test, scenario, history>>

\* Line 56: mEventCV.notify_all().
EventNotify(d) ==
    /\ dpc[d] = "e_notify"
    /\ mEventCV' = NotifyAll(mEventCV)
    /\ dpc' = [dpc EXCEPT ![d] = "e_unlock"]
    /\ UNCHANGED <<mFlushMap, mFlushMutex, mFlushCV, mEventMap, mEventMutex,
                   dev, dtmp, test, scenario, history>>

\* Line 57: the lock goes out of scope, onEvent returns.
EventUnlock(d) ==
    /\ dpc[d] = "e_unlock"
    /\ mEventMutex' = Release(mEventMutex)
    /\ dpc' = [dpc EXCEPT ![d] = "idle"]
    /\ dev' = [dev EXCEPT ![d] = NoEvent]
    /\ UNCHANGED <<mFlushMap, mFlushMutex, mFlushCV, mEventMap, mEventCV,
                   dtmp, test, scenario, history>>

\* Line 58: neither branch was taken; onEvent returns and has changed
\* nothing.
SkipReturn(d) ==
    /\ dpc[d] = "skip"
    /\ dpc' = [dpc EXCEPT ![d] = "idle"]
    /\ dev' = [dev EXCEPT ![d] = NoEvent]
    /\ UNCHANGED <<collector, dtmp, test, scenario, history>>

\* The steps of a delivery thread inside onEvent.
OnEventStep(d) ==
    \/ FlushLock(d) \/ FlushRead(d) \/ FlushWrite(d) \/ FlushNotify(d) \/ FlushUnlock(d)
    \/ EventLock(d) \/ EventPush(d) \/ EventNotify(d) \/ EventUnlock(d)
    \/ SkipReturn(d)


\* ---------------------------------------------------------- getFlushCount
\* The call of getFlushCount(h); next is what the test thread does after it.
GetFlushCountCall(h, next) ==
    /\ tpc = "idle"
    /\ tpc' = "gf_lock"
    /\ targ' = [op |-> "getFlushCount", h |-> h]
    /\ lastOp' = NoOp
    /\ retCount' = 0 /\ retEvents' = <<>> /\ retWait' = FALSE
    /\ script' = next
    /\ UNCHANGED <<collector, delivery, ti, expired, timedOut,
                   registered, si, lastEventTimestampMap, fixture, history>>

\* Line 61.
GetFlushCountLock ==
    /\ tpc = "gf_lock"
    /\ CanAcquire(mFlushMutex, Tester)
    /\ mFlushMutex' = Acquire(mFlushMutex, Tester)
    /\ tpc' = "gf_read"
    /\ UNCHANGED <<mFlushMap, mFlushCV, mEventMap, mEventMutex, mEventCV, delivery,
                   targ, ti, expired, timedOut, results, lastOp, scenario, history>>

\* Line 62-63: return mFlushMap[sensorHandle], and the lock is released.
GetFlushCountRead ==
    /\ tpc = "gf_read"
    /\ retCount' = FlushMapIndex(mFlushMap, targ.h)
    /\ UNCHANGED <<retEvents, retWait>>
    /\ mFlushMap' = FlushMapTouch(mFlushMap, targ.h)
    /\ mFlushMutex' = Release(mFlushMutex)
    /\ tpc' = "idle"
    /\ lastOp' = targ
    /\ targ' = NoOp
    /\ UNCHANGED <<mFlushCV, mEventMap, mEventMutex, mEventCV, delivery,
                   ti, expired, timedOut, scenario, history>>

\* -------------------------------------------------------------- getEvents
GetEventsCall(h, next) ==
    /\ tpc = "idle"
    /\ tpc' = "ge_lock"
    /\ targ' = [op |-> "getEvents", h |-> h]
    /\ lastOp' = NoOp
    /\ retCount' = 0 /\ retEvents' = <<>> /\ retWait' = FALSE
    /\ script' = next
    /\ UNCHANGED <<collector, delivery, ti, expired, timedOut,
                   registered, si, lastEventTimestampMap, fixture, history>>

\* Line 73.
GetEventsLock ==
    /\ tpc = "ge_lock"
    /\ CanAcquire(mEventMutex, Tester)
    /\ mEventMutex' = Acquire(mEventMutex, Tester)
    /\ tpc' = "ge_read"
    /\ UNCHANGED <<mFlushMap, mFlushMutex, mFlushCV, mEventMap, mEventCV, delivery,
                   targ, ti, expired, timedOut, results, lastOp, scenario, history>>

\* Line 74-75: return a copy of mEventMap[sensorHandle].
GetEventsRead ==
    /\ tpc = "ge_read"
    /\ retEvents' = EventMapIndex(mEventMap, targ.h)
    /\ UNCHANGED <<retCount, retWait>>
    /\ mEventMap' = EventMapTouch(mEventMap, targ.h)
    /\ mEventMutex' = Release(mEventMutex)
    /\ tpc' = "idle"
    /\ lastOp' = targ
    /\ targ' = NoOp
    /\ UNCHANGED <<mFlushMap, mFlushMutex, mFlushCV, mEventCV, delivery,
                   ti, expired, timedOut, scenario, history>>

\* ------------------------------------------------------ waitForFlushEvents
\* flushesReceived (lines 84-91) on the maps as they are now.
FlushesReceivedNow(sensors, n) ==
    \A i \in 1..Len(sensors) : FlushMapIndex(mFlushMap, sensors[i]) >= n

\* eventsReceived (lines 93-100) on the maps as they are now.
EventsReceivedNow(sensors) ==
    \A i \in 1..Len(sensors) : Len(EventMapIndex(mEventMap, sensors[i])) # 0

\* A wait returns: wait_for's result r is dropped by the caller (the waits
\* are void); the record keeps how the call went.
WaitReturn(r) ==
    /\ tpc' = "idle"
    /\ retWait' = r
    /\ UNCHANGED <<retCount, retEvents>>
    /\ lastOp' = [op |-> targ.op, sensors |-> targ.sensors, n |-> targ.n,
                  expired |-> expired, predAtCall |-> predAtCall,
                  blocked |-> blocked]
    /\ targ' = NoOp
    /\ ti' = 0
    /\ expired' = FALSE
    /\ timedOut' = FALSE
    /\ predAtCall' = FALSE
    /\ blocked' = FALSE

WaitForFlushEventsCall(sensors, n, timeoutMs, next) ==
    /\ tpc = "idle"
    /\ tpc' = "wf_lock"
    /\ targ' = [op |-> "waitForFlushEvents", sensors |-> sensors, n |-> n]
    /\ lastOp' = NoOp
    /\ retCount' = 0 /\ retEvents' = <<>> /\ retWait' = FALSE
    /\ expired' = (timeoutMs <= 0)
    /\ timedOut' = FALSE
    /\ blocked' = FALSE
    /\ predAtCall' = FlushesReceivedNow(sensors, n)
    /\ script' = next
    /\ UNCHANGED <<collector, delivery, ti, registered, si,
                   lastEventTimestampMap, fixture, nextId, budget, markers, lockOrder>>

\* Line 67, then wait_for begins.
WaitFlushLock ==
    /\ tpc = "wf_lock"
    /\ CanAcquire(mFlushMutex, Tester)
    /\ mFlushMutex' = Acquire(mFlushMutex, Tester)
    /\ tpc' = WaitForEntry("wf_pred", "wf_block")
    /\ ti' = 1
    /\ UNCHANGED <<mFlushMap, mFlushCV, mEventMap, mEventMutex, mEventCV, delivery,
                   targ, expired, timedOut, results, lastOp, scenario, history>>

\* Line 85-86: the loop of flushesReceived.  Past the last sensor the
\* predicate is true and wait_for, then waitForFlushEvents, return; else
\* getFlushCount is called and locks mFlushMutex again (line 61).
WaitFlushPred ==
    /\ tpc = "wf_pred"
    /\ IF ti > Len(targ.sensors)
         THEN /\ mFlushMutex' = Release(mFlushMutex)
              /\ WaitReturn(TRUE)
         ELSE /\ CanAcquire(mFlushMutex, Tester)
              /\ mFlushMutex' = Acquire(mFlushMutex, Tester)
              /\ tpc' = "wf_gf"
              /\ UNCHANGED <<results, lastOp, targ, ti, expired, timedOut,
                             predAtCall, blocked>>
    /\ UNCHANGED <<mFlushMap, mFlushCV, mEventMap, mEventMutex, mEventCV, delivery,
                   scenario, nextId, budget, markers, lockOrder>>

\* Line 62-63 inside the predicate, and the comparison of line 86.  A count
\* below numCallsToFlush makes the predicate false: wait_for returns it if
\* the wait before timed out, and waits otherwise.
WaitFlushGetFlushCount ==
    /\ tpc = "wf_gf"
    /\ mFlushMap' = FlushMapTouch(mFlushMap, targ.sensors[ti])
    /\ IF FlushMapIndex(mFlushMap, targ.sensors[ti]) < targ.n
         THEN IF AfterFalsePred(timedOut, "wf_block") = "return"
                THEN /\ mFlushMutex' = Release(Release(mFlushMutex))
                     /\ WaitReturn(FALSE)
                ELSE /\ mFlushMutex' = Release(mFlushMutex)
                     /\ tpc' = "wf_block"
                     /\ UNCHANGED <<results, lastOp, targ, ti, expired, timedOut,
                                    predAtCall, blocked>>
         ELSE /\ mFlushMutex' = Release(mFlushMutex)
              /\ tpc' = "wf_pred"
              /\ ti' = ti + 1
              /\ UNCHANGED <<results, lastOp, targ, expired, timedOut,
                             predAtCall, blocked>>
    /\ UNCHANGED <<mFlushCV, mEventMap, mEventMutex, mEventCV, delivery,
                   scenario, nextId, budget, markers, lockOrder>>

\* wait_until: the lock is released and the thread blocks, in one step.
WaitFlushBlock ==
    /\ tpc = "wf_block"
    /\ mFlushMutex' = Release(mFlushMutex)
    /\ mFlushCV' = mFlushCV \cup {Tester}
    /\ tpc' = "wf_wait"
    /\ blocked' = TRUE
    /\ UNCHANGED <<mFlushMap, mEventMap, mEventMutex, mEventCV, delivery,
                   targ, ti, expired, timedOut, results, lastOp, scenario,
                   nextId, budget, markers, lockOrder, predAtCall>>

\* wait_until wakes: notified, or the deadline has passed.  Its status is
\* read off the clock: timeout if the deadline has passed.
WaitFlushWake ==
    /\ tpc = "wf_wait"
    /\ Tester \notin mFlushCV \/ expired
    /\ timedOut' = expired
    /\ mFlushCV' = mFlushCV \ {Tester}
    /\ tpc' = "wf_relock"
    /\ UNCHANGED <<mFlushMap, mFlushMutex, mEventMap, mEventMutex, mEventCV, delivery,
                   targ, ti, expired, results, lastOp, scenario, history>>

\* wait_until locks the mutex again before it returns.
WaitFlushRelock ==
    /\ tpc = "wf_relock"
    /\ CanAcquire(mFlushMutex, Tester)
    /\ mFlushMutex' = Acquire(mFlushMutex, Tester)
    /\ tpc' = "wf_pred"
    /\ ti' = 1
    /\ UNCHANGED <<mFlushMap, mFlushCV, mEventMap, mEventMutex, mEventCV, delivery,
                   targ, expired, timedOut, results, lastOp, scenario, history>>

\* ----------------------------------------------------------- waitForEvents
WaitForEventsCall(sensors, timeoutMs, next) ==
    /\ tpc = "idle"
    /\ tpc' = "we_lock"
    /\ targ' = [op |-> "waitForEvents", sensors |-> sensors, n |-> 1]
    /\ lastOp' = NoOp
    /\ retCount' = 0 /\ retEvents' = <<>> /\ retWait' = FALSE
    /\ expired' = (timeoutMs <= 0)
    /\ timedOut' = FALSE
    /\ blocked' = FALSE
    /\ predAtCall' = EventsReceivedNow(sensors)
    /\ script' = next
    /\ UNCHANGED <<collector, delivery, ti, registered, si,
                   lastEventTimestampMap, fixture, nextId, budget, markers, lockOrder>>

\* Line 78, then wait_for begins.
WaitEventLock ==
    /\ tpc = "we_lock"
    /\ CanAcquire(mEventMutex, Tester)
    /\ mEventMutex' = Acquire(mEventMutex, Tester)
    /\ tpc' = WaitForEntry("we_pred", "we_block")
    /\ ti' = 1
    /\ UNCHANGED <<mFlushMap, mFlushMutex, mFlushCV, mEventMap, mEventCV, delivery,
                   targ, expired, timedOut, results, lastOp, scenario, history>>

\* Line 94-95: the loop of eventsReceived; getEvents locks mEventMutex
\* again (line 73).
WaitEventPred ==
    /\ tpc = "we_pred"
    /\ IF ti > Len(targ.sensors)
         THEN /\ mEventMutex' = Release(mEventMutex)
              /\ WaitReturn(TRUE)
         ELSE /\ CanAcquire(mEventMutex, Tester)
              /\ mEventMutex' = Acquire(mEventMutex, Tester)
              /\ tpc' = "we_ge"
              /\ UNCHANGED <<results, lastOp, targ, ti, expired, timedOut,
                             predAtCall, blocked>>
    /\ UNCHANGED <<mFlushMap, mFlushMutex, mFlushCV, mEventMap, mEventCV, delivery,
                   scenario, nextId, budget, markers, lockOrder>>

\* Line 74-75 inside the predicate, and the comparison of line 95.
WaitEventGetEvents ==
    /\ tpc = "we_ge"
    /\ mEventMap' = EventMapTouch(mEventMap, targ.sensors[ti])
    /\ IF Len(EventMapIndex(mEventMap, targ.sensors[ti])) = 0
         THEN IF AfterFalsePred(timedOut, "we_block") = "return"
                THEN /\ mEventMutex' = Release(Release(mEventMutex))
                     /\ WaitReturn(FALSE)
                ELSE /\ mEventMutex' = Release(mEventMutex)
                     /\ tpc' = "we_block"
                     /\ UNCHANGED <<results, lastOp, targ, ti, expired, timedOut,
                                    predAtCall, blocked>>
         ELSE /\ mEventMutex' = Release(mEventMutex)
              /\ tpc' = "we_pred"
              /\ ti' = ti + 1
              /\ UNCHANGED <<results, lastOp, targ, expired, timedOut,
                             predAtCall, blocked>>
    /\ UNCHANGED <<mFlushMap, mFlushMutex, mFlushCV, mEventCV, delivery,
                   scenario, nextId, budget, markers, lockOrder>>

WaitEventBlock ==
    /\ tpc = "we_block"
    /\ mEventMutex' = Release(mEventMutex)
    /\ mEventCV' = mEventCV \cup {Tester}
    /\ tpc' = "we_wait"
    /\ blocked' = TRUE
    /\ UNCHANGED <<mFlushMap, mFlushMutex, mFlushCV, mEventMap, delivery,
                   targ, ti, expired, timedOut, results, lastOp, scenario,
                   nextId, budget, markers, lockOrder, predAtCall>>

WaitEventWake ==
    /\ tpc = "we_wait"
    /\ Tester \notin mEventCV \/ expired
    /\ timedOut' = expired
    /\ mEventCV' = mEventCV \ {Tester}
    /\ tpc' = "we_relock"
    /\ UNCHANGED <<mFlushMap, mFlushMutex, mFlushCV, mEventMap, mEventMutex, delivery,
                   targ, ti, expired, results, lastOp, scenario, history>>

WaitEventRelock ==
    /\ tpc = "we_relock"
    /\ CanAcquire(mEventMutex, Tester)
    /\ mEventMutex' = Acquire(mEventMutex, Tester)
    /\ tpc' = "we_pred"
    /\ ti' = 1
    /\ UNCHANGED <<mFlushMap, mFlushMutex, mFlushCV, mEventMap, mEventCV, delivery,
                   targ, expired, timedOut, results, lastOp, scenario, history>>

\* A blocked thread may wake without a notification.
SpuriousWakeup ==
    /\ \/ tpc = "wf_wait" /\ Tester \in mFlushCV
          /\ mFlushCV' = mFlushCV \ {Tester} /\ mEventCV' = mEventCV
       \/ tpc = "we_wait" /\ Tester \in mEventCV
          /\ mEventCV' = mEventCV \ {Tester} /\ mFlushCV' = mFlushCV
    /\ UNCHANGED <<mFlushMap, mFlushMutex, mEventMap, mEventMutex,
                   delivery, test, scenario, history>>

WaitPcs == {"wf_lock", "wf_pred", "wf_gf", "wf_block", "wf_wait", "wf_relock",
            "we_lock", "we_pred", "we_ge", "we_block", "we_wait", "we_relock"}

\* The deadline std::chrono::milliseconds(timeoutMs) after the call passes.
Timeout ==
    /\ tpc \in WaitPcs
    /\ ~expired
    /\ expired' = TRUE
    /\ UNCHANGED <<collector, delivery, tpc, targ, ti, timedOut, results, lastOp,
                   scenario, history>>

\* ------------------------------------------------------------------ reset
ResetPcs == {"reset_flush", "reset_event"}

ResetCall(next) ==
    /\ tpc = "idle"
    /\ tpc' = "reset_flush"
    /\ targ' = [op |-> "reset",
                 dirty |-> \E h \in Handles :
                              \/ FlushMapIndex(mFlushMap, h) > 0
                              \/ Len(EventMapIndex(mEventMap, h)) > 0]
    /\ lastOp' = NoOp
    /\ retCount' = 0 /\ retEvents' = <<>> /\ retWait' = FALSE
    /\ script' = next
    /\ UNCHANGED <<collector, delivery, ti, expired, timedOut,
                   registered, si, lastEventTimestampMap, fixture, history>>

\* onEvent is inside mFlushMap[h]++ / mEventMap[h].push_back.
InFlushMap(d) == dpc[d] \in {"f_read", "f_write"}
InEventMap(d) == dpc[d] = "e_push"

\* What a clear() leaves: the empty map; or, when it runs unsynchronised
\* with an onEvent that is inside the same map (a data race), anything the
\* build makes of it - the clear takes effect, is lost, or the process dies.
ClearOutcomes(m, racing) ==
    IF racing THEN {ClearMap(m), m} ELSE {ClearMap(m)}

\* Line 43: mFlushMap.clear(), no lock taken.  The history of the markers
\* starts again.
ResetFlush ==
    /\ tpc = "reset_flush"
    /\ LET racing == \E d \in Deliverers : InFlushMap(d) IN
         /\ mFlushMap' \in ClearOutcomes(mFlushMap, racing)
         /\ tpc' \in (IF racing THEN {"reset_event", "crashed"} ELSE {"reset_event"})
    /\ markers' = [h \in Handles |-> 0]
    /\ UNCHANGED <<mFlushMutex, mFlushCV, mEventMap, mEventMutex, mEventCV, delivery,
                   targ, ti, expired, timedOut, results, lastOp, scenario,
                   nextId, budget, lockOrder, predAtCall, blocked>>

\* Line 44-45: mEventMap.clear(), no lock taken, and reset() returns.  The
\* history of the stored events starts again.
ResetEvent ==
    /\ tpc = "reset_event"
    /\ LET racing == \E d \in Deliverers : InEventMap(d) IN
         /\ mEventMap' \in ClearOutcomes(mEventMap, racing)
         /\ tpc' \in (IF racing THEN {"idle", "crashed"} ELSE {"idle"})
    /\ lastOp' = targ
    /\ targ' = NoOp
    /\ lockOrder' = [h \in Handles |-> <<>>]
    /\ UNCHANGED <<mFlushMap, mFlushMutex, mFlushCV, mEventMutex, mEventCV, delivery,
                   ti, expired, timedOut, results, scenario,
                   nextId, budget, markers, predAtCall, blocked>>

\* The steps of the test thread inside a call it has made.
TestStep ==
    \/ GetFlushCountLock \/ GetFlushCountRead
    \/ GetEventsLock \/ GetEventsRead
    \/ WaitFlushLock \/ WaitFlushPred \/ WaitFlushGetFlushCount
    \/ WaitFlushBlock \/ WaitFlushWake \/ WaitFlushRelock
    \/ WaitEventLock \/ WaitEventPred \/ WaitEventGetEvents
    \/ WaitEventBlock \/ WaitEventWake \/ WaitEventRelock
    \/ ResetFlush \/ ResetEvent

\* ------------------------------------------------------------------- Spec
\* The collector used as its contract allows: any events from the delivery
\* threads, any calls from the test thread, reset() only while no onEvent
\* call is in flight (and no onEvent call while reset() runs).
EventsNow ==
    {[sensorHandle |-> h, sensorType |-> ty, what |-> w, timestamp |-> nextId] :
        h \in Handles, ty \in SensorTypes, w \in MetaWhats}

NoDeliveryInFlight == \A d \in Deliverers : dpc[d] = "idle"

\* The delivery threads are interchangeable: an event is taken by "d1" if
\* it is idle, and by "d2" while "d1" is inside onEvent.
Takes(d) == d = "d1" \/ dpc["d1"] # "idle"

Deliver == \E d \in Deliverers : \E ev \in EventsNow :
              Takes(d) /\ tpc \notin ResetPcs /\ OnEvent(d, ev)

DeliverStep == \E d \in Deliverers : OnEventStep(d)

TestCall ==
    /\ script = "free"
    /\ \/ \E h \in Handles : GetFlushCountCall(h, "free")
       \/ \E h \in Handles : GetEventsCall(h, "free")
       \/ \E s \in SensorLists : \E n \in 1..MaxCalls : \E to \in Timeouts :
             WaitForFlushEventsCall(s, n, to, "free")
       \/ \E s \in SensorLists : \E to \in Timeouts : WaitForEventsCall(s, to, "free")
       \/ NoDeliveryInFlight /\ ResetCall("free")

Init ==
    /\ Constructed
    /\ script = "free"
    /\ registered = TRUE
    /\ sensorList = <<>>
    /\ budget = MaxEvents

Next ==
    \/ Deliver
    \/ DeliverStep
    \/ TestCall
    \/ TestStep
    \/ Timeout
    \/ SpuriousWakeup

Spec == Init /\ [][Next]_vars


\* The collector with a finite deadline that passes and fair scheduling:
\* a thread that can take a step is not held back for ever.
Fairness ==
    /\ WF_vars(TestStep)
    /\ \A d \in Deliverers : WF_vars(OnEventStep(d))

InitLive ==
    /\ Constructed
    /\ script = "free"
    /\ registered = TRUE
    /\ sensorList = <<>>
    /\ budget = MaxLiveEvents

SpecFair == InitLive /\ [][Next]_vars /\ Fairness /\ WF_vars(Timeout)

\* The same with a deadline that may be arbitrarily far away: nothing
\* forces the timeout, or a spurious wake-up, to happen.
SpecPatient == InitLive /\ [][Next]_vars /\ Fairness

\* ---------------------------------------------------------- NoStaleEvents
\* TEST_F(SensorsHidlTest, NoStaleEvents), lines 743-790, run by the test
\* thread against the collector while the environment's delivery threads
\* call onEvent.  script is the statement the test thread executes next.

\* Line 751: the sensors of the list.
StaleSensors == <<1, 2>>

\* std::map<int32_t, int64_t>::operator[] on lastEventTimestampMap.
TimestampMapIndex(m, h) == IF h \in DOMAIN m THEN m[h] ELSE 0

\* The sensors are active from the return of activateAllSensors(true) to
\* the return of activateAllSensors(false).
SensorsActive == script \in {"ns_wait1", "ns_deactivate1", "ns_wait2", "ns_deactivate2"}

\* The environment calls onEvent of the registered callback with the data
\* events and the flush markers of active sensors.  A call that has begun goes on whatever the test
\* thread does: nothing makes the test thread wait for it.
StaleEventsNow ==
    {ev \in EventsNow : ev.what = "META_DATA_FLUSH_COMPLETE"}

\* Lines 744 and 745, 500 * 1000 and 1000 * 1000: numbers of microseconds
\* (line 775 passes kOneSecond to usleep).
kFiveHundredMilliseconds == 500000
kOneSecond == 1000000

\* Event::timestamp counts nanoseconds (line 344 stamps an event with
\* elapsedRealtimeNano()); usleep and SensorInfo::minDelay count
\* microseconds.
NsPerUs == 1000

\* sensor.minDelay of the listed sensors, in microseconds; maxMinDelay
\* (lines 752-755) is the same number.
StaleMinDelay == 10000

\* Line 786: what ASSERT_GE compares delta with.
StaleThreshold == kFiveHundredMilliseconds + (3 * StaleMinDelay)

\* Line 775: the time usleep(kOneSecond + 5 * maxMinDelay) lets pass, in
\* the unit of the timestamps.
QuiescentNs == (kOneSecond + (5 * StaleMinDelay)) * NsPerUs

\* What the interface stamps a data event with: the time of the call
\* (one more per onEvent call), and after the reactivation of line 777
\* that time or one that is later by the number of line 786 or by the
\* quiescent interval.  A flush marker's timestamp is read by nobody.
StaleOffsets ==
    IF script \in {"ns_wait2", "ns_deactivate2"}
      THEN {0, StaleThreshold, QuiescentNs}
      ELSE {0}

StampedEventsNow ==
    {[p[1] EXCEPT !.timestamp = nextId + p[2]] :
        p \in {q \in StaleEventsNow \X StaleOffsets : q[2] = 0 \/ ~IsFlushComplete(q[1])}}

\* The environment's one polling thread.
Poller == "d1"

DeliverStale == \E ev \in StampedEventsNow :
                   /\ tpc # "crashed" /\ registered /\ SensorsActive
                   /\ OnEvent(Poller, ev)

\* A process that has died takes no step.
StaleDeliverStep == tpc # "crashed" /\ OnEventStep(Poller)

\* The test thread goes from one statement to the next without touching
\* the collector.
Goto(next) ==
    /\ script' = next
    /\ UNCHANGED <<collector, delivery, test, registered, lastEventTimestampMap, fixture,
                   history>>

\* Line 749: getEnvironment()->registerCallback(&callback).
RegisterCallback ==
    /\ script = "ns_register" /\ tpc = "idle"
    /\ registered' = TRUE
    /\ script' = "ns_activate1"
    /\ UNCHANGED <<collector, delivery, test, si, lastEventTimestampMap, fixture, history>>

\* Lines 758 and 777: activateAllSensors(true) (lines 555-562), a
\* synchronous call that touches no state of the collector.
ActivateAllSensors ==
    /\ tpc = "idle"
    /\ \/ script = "ns_activate1" /\ Goto("ns_wait1")
       \/ script = "ns_activate2" /\ Goto("ns_wait2")
    /\ si' = si

\* Lines 763 and 778: the second argument of waitForEvents.
NoStaleTimeout(maxMinDelay) == kFiveHundredMilliseconds + (5 * maxMinDelay)

\* Lines 763 and 778: callback.waitForEvents(sensors, ...), a finite timeout.
StaleWaitForEvents ==
    \/ script = "ns_wait1"
         /\ WaitForEventsCall(StaleSensors, NoStaleTimeout(StaleMinDelay), "ns_deactivate1")
    \/ script = "ns_wait2"
         /\ WaitForEventsCall(StaleSensors, NoStaleTimeout(StaleMinDelay), "ns_deactivate2")

\* Lines 764 and 779: activateAllSensors(false); the loop that follows
\* starts at the first sensor.
DeactivateAllSensors ==
    /\ tpc = "idle"
    /\ \/ script = "ns_deactivate1" /\ Goto("ns_size")
       \/ script = "ns_deactivate2" /\ Goto("ns_front")
    /\ si' = 1

\* Lines 768-769: the loop over the sensors and the first getEvents; past
\* the last sensor the loop is left for the usleep of line 775.
SaveLoop ==
    /\ script = "ns_size" /\ tpc = "idle"
    /\ IF si > Len(StaleSensors)
         THEN Goto("ns_sleep") /\ si' = si
         ELSE GetEventsCall(StaleSensors[si], "ns_size_check")

\* Line 769: ASSERT_GE(size, 1); a failed assertion leaves the test body.
SaveAssert ==
    /\ script = "ns_size_check" /\ tpc = "idle"
    /\ IF Len(retEvents) >= 1 THEN Goto("ns_back") ELSE Goto("ns_failed")
    /\ si' = si

\* Line 771: the second getEvents.
SaveGetEvents ==
    /\ script = "ns_back"
    /\ GetEventsCall(StaleSensors[si], "ns_save")

\* Lines 770-771: lastEventTimestampMap[h] = getEvents(h).back().timestamp.
\* back() of an empty vector is undefined.
SaveTimestamp ==
    /\ script = "ns_save" /\ tpc = "idle"
    /\ IF Len(retEvents) = 0
         THEN /\ tpc' \in {"idle", "crashed"}
              /\ \E ts \in 0..nextId :
                   lastEventTimestampMap' = Put(lastEventTimestampMap, StaleSensors[si], ts)
         ELSE /\ tpc' = tpc
              /\ lastEventTimestampMap' =
                     Put(lastEventTimestampMap, StaleSensors[si],
                         retEvents[Len(retEvents)].timestamp)
    /\ si' = si + 1
    /\ script' = "ns_size"
    /\ UNCHANGED <<collector, delivery, targ, ti, expired, timedOut, results, lastOp,
                   registered, fixture, history>>

\* Line 775: usleep(kOneSecond + 5 * maxMinDelay): time passes, and nothing
\* else.
Usleep ==
    /\ script = "ns_sleep" /\ tpc = "idle"
    /\ Goto("ns_reset") /\ si' = si

\* Line 776: callback.reset(), on the callback that was registered in line
\* 749.
StaleReset ==
    /\ script = "ns_reset"
    /\ ResetCall("ns_activate2")

\* Lines 781 and 784: the loop over the sensors and its getEvents; past the
\* last sensor the test unregisters.
CheckLoop ==
    /\ script = "ns_front" /\ tpc = "idle"
    /\ IF si > Len(StaleSensors)
         THEN Goto("ns_unregister") /\ si' = si
         ELSE GetEventsCall(StaleSensors[si], "ns_check")

\* Lines 784-786: newEvent = getEvents(h).front(), delta against
\* lastEventTimestampMap[h], ASSERT_GE(delta, ...).  front() of an empty
\* vector is undefined: the event is anything, or the process dies.
CheckFresh ==
    /\ script = "ns_check" /\ tpc = "idle"
    /\ LET h == StaleSensors[si]
           delta == retEvents[1].timestamp - TimestampMapIndex(lastEventTimestampMap, h)
       IN  /\ lastEventTimestampMap' =
                  Put(lastEventTimestampMap, h, TimestampMapIndex(lastEventTimestampMap, h))
           /\ IF Len(retEvents) = 0
                THEN /\ tpc' \in {"idle", "crashed"}
                     /\ script' \in {"ns_front", "ns_failed"}
                ELSE /\ tpc' = tpc
                     /\ script' = IF delta >= StaleThreshold THEN "ns_front" ELSE "ns_failed"
    /\ si' = si + 1
    /\ UNCHANGED <<collector, delivery, targ, ti, expired, timedOut, results, lastOp,
                   registered, fixture, history>>

\* The environment's unregisterCallback returns when it calls the callback
\* no more: no onEvent call is in flight.
UnregisterReturns == NoDeliveryInFlight

\* Line 789: getEnvironment()->unregisterCallback().
UnregisterCallback ==
    /\ script = "ns_unregister" /\ tpc = "idle"
    /\ UnregisterReturns
    /\ registered' = FALSE
    /\ script' = "ns_done"
    /\ UNCHANGED <<collector, delivery, test, si, lastEventTimestampMap, fixture, history>>

\* The steps of the test thread inside the calls NoStaleEvents makes.
StaleTestStep ==
    \/ GetEventsLock \/ GetEventsRead
    \/ WaitEventLock \/ WaitEventPred \/ WaitEventGetEvents
    \/ WaitEventBlock \/ WaitEventWake \/ WaitEventRelock
    \/ ResetFlush \/ ResetEvent

StaleScript ==
    \/ RegisterCallback \/ ActivateAllSensors \/ StaleWaitForEvents
    \/ DeactivateAllSensors \/ SaveLoop \/ SaveAssert \/ SaveGetEvents
    \/ SaveTimestamp \/ Usleep \/ StaleReset \/ CheckLoop \/ CheckFresh
    \/ UnregisterCallback

InitStale ==
    /\ Constructed
    /\ script = "ns_register"
    /\ registered = FALSE
    /\ sensorList = <<>>
    /\ budget = MaxStaleEvents

NextStale ==
    \/ DeliverStale
    \/ StaleDeliverStep
    \/ StaleScript
    \/ StaleTestStep
    \/ Timeout
    \/ SpuriousWakeup

SpecStale == InitStale /\ [][NextStale]_vars

\* ------------------------------------------------------------ runFlushTest
\* SensorsHidlTest::activate, lines 170-179: the handle is tracked if
\* enabled, whatever the interface answers r.
Activate_EraseOnDisable(h, enabled, r) ==
    /\ mSensorHandles' = IF enabled THEN mSensorHandles \cup {h}
                                    ELSE mSensorHandles \ {h}
    /\ calls' = Append(calls, [fn |-> "activate", h |-> h, enabled |-> enabled,
                               result |-> r])
Activate(h, enabled, r) ==
    /\ mSensorHandles' = IF enabled THEN mSensorHandles \cup {h} ELSE mSensorHandles
    /\ calls' = Append(calls, [fn |-> "activate", h |-> h, enabled |-> enabled,
                               result |-> r])

\* SensorsHidlTest::flush, lines 129-131, with the interface's answer r.
Flush(h, r) ==
    calls' = Append(calls, [fn |-> "flush", h |-> h, enabled |-> FALSE, result |-> r])

\* Line 623: ASSERT_EQ(flushResult, expectedResponse).
FlushResultMatches_Ignored(r, expected) == TRUE
FlushResultMatches(r, expected) == r = expected

\* Line 634: ASSERT_EQ(callback.getFlushCount(h), expectedFlushCount).
FlushCountMatches_AtMost(count, expected) == count <= expected
FlushCountMatches_AtLeast(count, expected) == count >= expected
FlushCountMatches(count, expected) == count = expected

\* The calls of runFlushTest that the tests make: runSingleFlushTest (lines
\* 603-607) passes flushCalls 1; lines 646, 647, 657, 671 and 686.
FlushTestArgs ==
    {[sensors |-> sl, activateSensor |-> a[1], flushCalls |-> a[2],
      expectedFlushCount |-> a[3], expectedResponse |-> a[4]] :
        sl \in SensorLists,
        a \in {<<TRUE, 1, 1, "OK">>, <<TRUE, kFlushes, kFlushes, "OK">>,
               <<TRUE, 1, 0, "BAD_VALUE">>, <<FALSE, 1, 0, "BAD_VALUE">>}}

\* The events of a run of runFlushTest: the flush markers of the sensors,
\* and a data event of sensor 1.
FlushEventsNow ==
    {ev \in StaleEventsNow : IsFlushComplete(ev) \/ ev.sensorHandle = 1}

\* The environment calls onEvent of the registered callback.
DeliverFlush == \E ev \in FlushEventsNow :
                   /\ tpc # "crashed" /\ registered
                   /\ script \notin {"rf_passed", "rf_failed"}
                   /\ OnEvent(Poller, ev)

\* Lines 612-613: EventCallback callback; registerCallback(&callback).
FlushRegister ==
    /\ script = "rf_register" /\ tpc = "idle" /\ args # NoArgs
    /\ registered' = TRUE
    /\ script' = "rf_loop"
    /\ si' = 1
    /\ UNCHANGED <<collector, delivery, test, lastEventTimestampMap, fixture, history>>

\* Lines 615-618: the loop over the sensors; batch (its result is dropped)
\* and activate(sensor.sensorHandle, activateSensor).  Past the last sensor
\* the loop is left for line 629.
FlushLoop ==
    /\ script = "rf_loop" /\ tpc = "idle"
    /\ IF si > Len(args.sensors)
         THEN /\ script' = "rf_wait"
              /\ UNCHANGED <<fi, mSensorHandles, calls>>
         ELSE /\ \E r \in Results : Activate(args.sensors[si], args.activateSensor, r)
              /\ fi' = 0
              /\ script' = "rf_flush"
    /\ UNCHANGED <<collector, delivery, test, registered, si, lastEventTimestampMap,
                   sensorList, sessions, mDirectChannelHandles, failures, args, history>>

\* Lines 621-625: flushCalls times flush and ASSERT_EQ(flushResult,
\* expectedResponse), which leaves runFlushTest when it fails; then
\* activate(sensor.sensorHandle, false).
FlushCalls ==
    /\ script = "rf_flush" /\ tpc = "idle"
    /\ IF fi < args.flushCalls
         THEN \E r \in Results :
                /\ Flush(args.sensors[si], r)
                /\ IF FlushResultMatches(r, args.expectedResponse)
                     THEN fi' = fi + 1 /\ script' = script
                     ELSE fi' = fi /\ script' = "rf_failed"
                /\ UNCHANGED <<si, mSensorHandles>>
         ELSE /\ \E r \in Results : Activate(args.sensors[si], FALSE, r)
              /\ si' = si + 1
              /\ fi' = fi
              /\ script' = "rf_loop"
    /\ UNCHANGED <<collector, delivery, test, registered, lastEventTimestampMap,
                   sensorList, sessions, mDirectChannelHandles, failures, args, history>>

\* Line 629: callback.waitForFlushEvents(sensors, flushCalls, 1000).
FlushWait ==
    /\ script = "rf_wait"
    /\ WaitForFlushEventsCall(args.sensors, args.flushCalls, 1, "rf_unregister")

\* Line 630: getEnvironment()->unregisterCallback().  The wait of line 629
\* has returned; what wait_for found (true: the predicate, false: the
\* timeout) is kept in the history, the code drops it.
FlushUnregister ==
    /\ script = "rf_unregister" /\ tpc = "idle"
    /\ UnregisterReturns
    /\ registered' = FALSE
    /\ script' = "rf_check"
    /\ si' = 1
    /\ calls' = Append(calls, [fn |-> "waitForFlushEvents", result |-> retWait])
    /\ UNCHANGED <<collector, delivery, test, lastEventTimestampMap,
                   sensorList, sessions, mDirectChannelHandles, failures, args, fi, mSensorHandles, history>>

\* Lines 633-634: the loop over the sensors and its getFlushCount; past the
\* last sensor runFlushTest returns with no assertion failed.
FlushCheckLoop ==
    /\ script = "rf_check" /\ tpc = "idle"
    /\ IF si > Len(args.sensors)
         THEN Goto("rf_passed") /\ si' = si
         ELSE GetFlushCountCall(args.sensors[si], "rf_assert")

\* Line 634: ASSERT_EQ(getFlushCount(h), expectedFlushCount).
FlushAssert ==
    /\ script = "rf_assert" /\ tpc = "idle"
    /\ IF FlushCountMatches(retCount, args.expectedFlushCount)
         THEN Goto("rf_check") /\ si' = si + 1
         ELSE Goto("rf_failed") /\ si' = si

\* The steps of the test thread inside the calls runFlushTest makes.
FlushTestStep ==
    \/ GetFlushCountLock \/ GetFlushCountRead
    \/ WaitFlushLock \/ WaitFlushPred \/ WaitFlushGetFlushCount
    \/ WaitFlushBlock \/ WaitFlushWake \/ WaitFlushRelock

FlushScript ==
    \/ FlushRegister \/ FlushLoop \/ FlushCalls \/ FlushWait
    \/ FlushUnregister \/ FlushCheckLoop \/ FlushAssert

InitFlush ==
    /\ Constructed
    /\ script = "rf_register"
    /\ registered = FALSE
    /\ sensorList = <<>>
    /\ budget = MaxFlushEvents

\* runFlushTest is called with one of the argument lists of the tests.
FlushEnter ==
    /\ script = "rf_register" /\ tpc = "idle" /\ args = NoArgs
    /\ args' \in FlushTestArgs
    /\ UNCHANGED <<collector, delivery, test, script, registered, si,
                   lastEventTimestampMap, sensorList, sessions, mDirectChannelHandles, failures, fi, mSensorHandles, calls,
                   history>>

NextFlush ==
    \/ FlushEnter
    \/ DeliverFlush
    \/ StaleDeliverStep
    \/ FlushScript
    \/ FlushTestStep
    \/ Timeout
    \/ SpuriousWakeup

SpecFlush == InitFlush /\ [][NextFlush]_vars

\* ------------------------------------------------------------- SensorInfo
\* A SensorInfo the interface lists for handle h, with every field as
\* SensorListValid wants it.
SensorInfoOf(h) ==
    [sensorHandle |-> h, type |-> "ACCELEROMETER", typeAsString |-> "t",
     name |-> "n", vendor |-> "v", power |-> 0, maxRange |-> 1,
     fifoMaxEventCount |-> 0, fifoReservedEventCount |-> 0,
     minDelay |-> 0, maxDelay |-> 0, oneShot |-> FALSE, dataInjection |-> FALSE]

\* The lists of the runs: one or two sensors, in either order of handles.
ListedSensors ==
    {<<SensorInfoOf(1)>>, <<SensorInfoOf(2)>>,
     <<SensorInfoOf(1), SensorInfoOf(2)>>, <<SensorInfoOf(2), SensorInfoOf(1)>>}

RECURSIVE MaxHandle(_, _)
\* The loop of getInvalidSensorHandle, lines 248-251, from index i on.
MaxHandle(list, i) ==
    IF i > Len(list) THEN 0
    ELSE LET rest == MaxHandle(list, i + 1)
         IN  IF list[i].sensorHandle > rest THEN list[i].sensorHandle ELSE rest

\* getInvalidSensorHandle, lines 246-253.
GetInvalidSensorHandle(list) == MaxHandle(list, 1) + 1

\* The handles of the listed sensors.
ListedHandles(list) == {list[i].sensorHandle : i \in 1..Len(list)}

\* --------------------------------------------------------------- activate
\* The test fixture calls SensorsHidlTest::activate with a listed handle or
\* the invalid one; the interface answers either result.
ActivateCall ==
    /\ script = "activate"
    /\ Len(calls) < MaxActivateCalls
    /\ \E h \in ListedHandles(sensorList) \cup {GetInvalidSensorHandle(sensorList)} :
       \E enabled \in BOOLEAN : \E r \in Results : Activate(h, enabled, r)
    /\ UNCHANGED <<collector, delivery, test, script, registered, si,
                   lastEventTimestampMap, sensorList, sessions, mDirectChannelHandles, failures, args, fi, history>>

InitActivate ==
    /\ Constructed
    /\ script = "activate"
    /\ registered = FALSE
    /\ sensorList \in ListedSensors
    /\ budget = 0

NextActivate == ActivateCall

SpecActivate == InitActivate /\ [][NextActivate]_vars

\* ------------------------------------- SetOperationMode, InjectSensorEventData
\* What the tests of this section leave alone.
untouched == <<collector, delivery, test, registered, lastEventTimestampMap,
               sensorList, sessions, mDirectChannelHandles, fi, mSensorHandles, history>>

SensorWith(h, type, inj) ==
    [SensorInfoOf(h) EXCEPT !.type = type, !.dataInjection = inj]

\* The sensor types of the runs: one the switch of lines 337-355 injects
\* for, one it skips.
ModeTypes == {"ACCELEROMETER", "PROXIMITY"}

\* The types of the case labels of lines 338-340.
InjectableTypes == {"ACCELEROMETER", "GYROSCOPE", "MAGNETIC_FIELD"}

\* The lists of the runs: up to two sensors, each with or without the
\* DATA_INJECTION flag.
ModeSensors ==
    {<<>>}
    \cup {<<SensorWith(1, t, j)>> : t \in ModeTypes, j \in BOOLEAN}
    \cup {<<SensorWith(1, a[1], a[2]), SensorWith(2, a[3], a[4])>> :
            a \in ModeTypes \X BOOLEAN \X ModeTypes \X BOOLEAN}

\* Lines 304-306 and 322-329: any sensor has the DATA_INJECTION flag.
NeedOperationModeSupport(list) == \E i \in 1..Len(list) : list[i].dataInjection

\* Lines 322-329: the lambda of std::any_of pushes every flagged sensor it
\* is applied to.  any_of applies it to the elements in order and at least
\* up to the first flagged one; how far beyond is left to the library.
SensorSupportInjection(list) ==
    LET first == CHOOSE i \in 1..Len(list) :
                     list[i].dataInjection /\ \A j \in 1..(i - 1) : ~list[j].dataInjection
        Flagged(x) == x.dataInjection
    IN  {SelectSeq(SubSeq(list, 1, k), Flagged) : k \in first..Len(list)}

SetOperationMode(mode, r) ==
    calls' = Append(calls, [fn |-> "setOperationMode", mode |-> mode, result |-> r])

InjectSensorData(h, r) ==
    calls' = Append(calls, [fn |-> "injectSensorData", h |-> h, result |-> r])

\* ASSERT_EQ(Result::OK, getSensors()->setOperationMode(mode)): the test
\* goes on if the interface answers OK and returns if it does not.
ModeCall(at, mode, next, failed) ==
    /\ script = at
    /\ \E r \in Results :
         /\ SetOperationMode(mode, r)
         /\ script' = IF r = "OK" THEN next ELSE failed
    /\ UNCHANGED <<untouched, si, args, failures>>

\* Lines 302-309: SetOperationMode returns if no sensor needs the modes.
SomStart ==
    /\ script = "som_start"
    /\ script' = IF NeedOperationModeSupport(sensorList) THEN "som_normal"
                                                          ELSE "som_passed"
    /\ UNCHANGED <<untouched, si, args, failures, calls>>

\* Lines 311, 312 and 313.
SomNormal == ModeCall("som_normal", "NORMAL", "som_inject", "som_failed")
SomInjection == ModeCall("som_inject", "DATA_INJECTION", "som_restore", "som_failed")
SomRestore == ModeCall("som_restore", "NORMAL", "som_passed", "som_failed")

\* Lines 318-331: InjectSensorEventData collects the sensors to inject
\* for and returns if there is none.
IsdStart ==
    /\ script = "isd_start"
    /\ IF NeedOperationModeSupport(sensorList)
         THEN /\ args' \in {[sensors |-> l] : l \in SensorSupportInjection(sensorList)}
              /\ script' = "isd_normal"
         ELSE /\ args' = args
              /\ script' = "isd_done"
    /\ si' = 1
    /\ UNCHANGED <<untouched, failures, calls>>

\* Lines 333 and 334.
IsdNormal == ModeCall("isd_normal", "NORMAL", "isd_inject", "isd_failed")
IsdInjection == ModeCall("isd_inject", "DATA_INJECTION", "isd_loop", "isd_failed")

\* Line 350 is an EXPECT_EQ: a rejected injection does not end the test.
InjectFailureEnds_Fatal(r) == r # "OK"
InjectFailureEnds(r) == FALSE

\* Lines 336-356: one iteration of the loop over sensorSupportInjection.
IsdLoop ==
    /\ script = "isd_loop"
    /\ IF si > Len(args.sensors)
         THEN /\ script' = "isd_restore"
              /\ UNCHANGED <<si, calls, failures>>
         ELSE LET s == args.sensors[si]
              IN  IF s.type \in InjectableTypes
                    THEN \E r \in Results :
                           /\ InjectSensorData(s.sensorHandle, r)
                           /\ failures' = IF r = "OK" THEN failures
                                          ELSE failures \cup {<<"injectSensorData", s.sensorHandle>>}
                           /\ IF InjectFailureEnds(r)
                                THEN script' = "isd_failed" /\ si' = si
                                ELSE script' = script /\ si' = si + 1
                    ELSE /\ si' = si + 1
                         /\ UNCHANGED <<script, calls, failures>>
    /\ UNCHANGED <<untouched, args>>

\* Line 357.
IsdRestore == ModeCall("isd_restore", "NORMAL", "isd_done", "isd_failed")

InitMode ==
    /\ Constructed
    /\ script \in {"som_start", "isd_start"}
    /\ registered = FALSE
    /\ sensorList \in ModeSensors
    /\ budget = 0

NextMode ==
    \/ SomStart \/ SomNormal \/ SomInjection \/ SomRestore
    \/ IsdStart \/ IsdNormal \/ IsdInjection \/ IsdLoop \/ IsdRestore

SpecMode == InitMode /\ [][NextMode]_vars

\* ----------------------------------------------------------------- Activate
\* What the Activate test leaves alone.
idle == <<collector, delivery, test, registered, lastEventTimestampMap,
          sensorList, sessions, mDirectChannelHandles, args, fi, failures, history>>

\* The lists of the runs of Activate: none, one or two sensors.
ActivateTestSensors == {<<>>} \cup ListedSensors

\* batch(sensorHandle, samplingPeriodNs, maxReportLatencyNs).
Batch(h, r) == calls' = Append(calls, [fn |-> "batch", h |-> h, result |-> r])

\* ASSERT_EQ(activate(h, enabled), expected), lines 725-740.
ActivateAsserted_Unchecked(r, expected) == TRUE
ActivateAsserted(r, expected) == r = expected

\* Lines 718-720: Activate returns if no sensor is listed.
ActivateStart ==
    /\ script = "at_start"
    /\ script' = IF Len(sensorList) = 0 THEN "at_passed" ELSE "at_loop"
    /\ si' = 1
    /\ UNCHANGED <<idle, mSensorHandles, calls>>

\* Lines 723-724: the next sensor of the loop and the batch call, whose
\* result the test does not look at; past the last sensor, line 737.
ActivateLoop ==
    /\ script = "at_loop"
    /\ IF si > Len(sensorList)
         THEN script' = "at_invalid_on" /\ calls' = calls
         ELSE /\ \E r \in Results : Batch(sensorList[si].sensorHandle, r)
              /\ script' = "at_on1"
    /\ UNCHANGED <<idle, si, mSensorHandles>>

\* ASSERT_EQ(activate(h, enabled), expected) at script position at.
ActivateAssert(at, h, enabled, expected, next) ==
    /\ script = at
    /\ \E r \in Results :
         /\ Activate(h, enabled, r)
         /\ script' = IF ActivateAsserted(r, expected) THEN next ELSE "at_failed"
    /\ UNCHANGED idle

\* Lines 725, 728, 731 and 734.
ActivateOn1 ==
    /\ ActivateAssert("at_on1", sensorList[si].sensorHandle, TRUE, "OK", "at_on2")
    /\ si' = si
ActivateOn2 ==
    /\ ActivateAssert("at_on2", sensorList[si].sensorHandle, TRUE, "OK", "at_off1")
    /\ si' = si
ActivateOff1 ==
    /\ ActivateAssert("at_off1", sensorList[si].sensorHandle, FALSE, "OK", "at_off2")
    /\ si' = si
ActivateOff2 ==
    /\ ActivateAssert("at_off2", sensorList[si].sensorHandle, FALSE, "OK", "at_loop")
    /\ si' = IF script' = "at_loop" THEN si + 1 ELSE si

\* Lines 738-740.
ActivateInvalidOn ==
    /\ ActivateAssert("at_invalid_on", GetInvalidSensorHandle(sensorList), TRUE,
                      "BAD_VALUE", "at_invalid_off")
    /\ si' = si
ActivateInvalidOff ==
    /\ ActivateAssert("at_invalid_off", GetInvalidSensorHandle(sensorList), FALSE,
                      "BAD_VALUE", "at_passed")
    /\ si' = si

InitActivateTest ==
    /\ Constructed
    /\ script = "at_start"
    /\ registered = FALSE
    /\ sensorList \in ActivateTestSensors
    /\ budget = 0

NextActivateTest ==
    \/ ActivateStart \/ ActivateLoop
    \/ ActivateOn1 \/ ActivateOn2 \/ ActivateOff1 \/ ActivateOff2
    \/ ActivateInvalidOn \/ ActivateInvalidOff

SpecActivateTest == InitActivateTest /\ [][NextActivateTest]_vars

\* ------------------------------------------------------ CallInitializeTwice
\* "A" is SensorsHidlEnvironmentV2_0::Instance(), the environment of the
\* test suite, set up before the test; "B" is newEnv of lines 579-580.
Environments == {"A", "B"}

\* Line 576.
kNumEvents == 1

\* What CallInitializeTwice leaves alone.
still == <<collector, delivery, test, registered, si, lastEventTimestampMap,
           sensorList, args, fi, failures, mSensorHandles, mDirectChannelHandles, calls,
           budget, markers, lockOrder, predAtCall, blocked>>

\* The environment whose HidlSetUp (and so initialize()) came last; the
\* others that are set up are stale.
Latest == up[Len(up)]

\* HidlSetUp and HidlTearDown of environment e.
HidlSetUp(e) == up' = Append(up, e)
HidlTearDown(e) ==
    LET Other(x) == x # e
    IN  up' = SelectSeq(up, Other)

\* The sensors are active from activateAllSensors(true) to
\* activateAllSensors(false): lines 583-588 and 598-600.
SessionSensorsActive ==
    script \in {"cit_collect_old", "cit_window_old", "cit_assert_old",
                "cit_collect_new", "cit_window_new", "cit_assert_new",
                "cit_deactivate1",
                "cit_collect", "cit_window", "cit_assert", "cit_deactivate2"}

\* The interface under test produces an event and writes it to the event
\* queue of one or more of the environments that are set up: to the latest
\* one alone if it honours initialize(), to a stale one if it does not.
\* The environment that is collecting keeps the event; any other drops it.
SessionDeliver ==
    /\ SessionSensorsActive
    /\ nextId <= budget
    /\ \E receivers \in (SUBSET {up[i] : i \in 1..Len(up)}) \ {{}} :
         collectedEvents' = IF collecting \in receivers
                              THEN Append(collectedEvents, nextId)
                              ELSE collectedEvents
    /\ nextId' = nextId + 1
    /\ UNCHANGED <<still, script, up, collecting, windows>>

\* collectEvents(timeoutUs, nEventLimit, environment) begins: what the
\* environment held before is cleared.
CollectBegin(at, e, next) ==
    /\ script = at
    /\ collecting' = e
    /\ collectedEvents' = <<>>
    /\ script' = next
    /\ UNCHANGED <<still, nextId, up, windows>>

\* collectEvents returns what the environment received since it began:
\* when the limit is reached or when the time is up, whichever the
\* interface lets happen first.
CollectReturn(at, next) ==
    /\ script = at
    /\ collecting' = "none"
    /\ windows' = Append(windows, [env |-> collecting, stale |-> collecting # Latest,
                                   events |-> collectedEvents])
    /\ script' = next
    /\ UNCHANGED <<still, nextId, up, collectedEvents>>

\* A statement that touches neither the environments nor the collection.
SessionGoto(at, next) ==
    /\ script = at
    /\ script' = next
    /\ UNCHANGED <<still, nextId, sessions>>

\* Line 585: ASSERT_EQ(collectEvents(...).size(), 0).
OldSessionAsserted_Unchecked(n) == TRUE
OldSessionAsserted(n) == n = 0

\* Lines 587 and 599: ASSERT_GE(collectEvents(...).size(), kNumEvents).
NewSessionAsserted(n) == n >= kNumEvents

\* Lines 568-571: the test returns if no sensor is listed.
CitStart ==
    SessionGoto("cit_start", IF Len(sensorList) = 0 THEN "cit_passed" ELSE "cit_setup_new")

\* Lines 579-581: newEnv->HidlSetUp().
CitSetUpNew ==
    /\ script = "cit_setup_new"
    /\ HidlSetUp("B")
    /\ script' = "cit_activate1"
    /\ UNCHANGED <<still, nextId, collecting, collectedEvents, windows>>

\* Line 583.
CitActivate1 == SessionGoto("cit_activate1", "cit_collect_old")

\* Line 585: the old environment's window and its assertion.
CitCollectOld == CollectBegin("cit_collect_old", "A", "cit_window_old")
CitWindowOld == CollectReturn("cit_window_old", "cit_assert_old")
CitAssertOld ==
    SessionGoto("cit_assert_old",
                IF OldSessionAsserted(Len(collectedEvents)) THEN "cit_collect_new"
                                                            ELSE "cit_failed")

\* Line 587: the new environment's window and its assertion.
CitCollectNew == CollectBegin("cit_collect_new", "B", "cit_window_new")
CitWindowNew == CollectReturn("cit_window_new", "cit_assert_new")
CitAssertNew ==
    SessionGoto("cit_assert_new",
                IF NewSessionAsserted(Len(collectedEvents)) THEN "cit_deactivate1"
                                                            ELSE "cit_failed")

\* Line 588.
CitDeactivate1 == SessionGoto("cit_deactivate1", "cit_teardown_new")

\* Line 591: newEnv->HidlTearDown().
CitTearDownNew ==
    /\ script = "cit_teardown_new"
    /\ HidlTearDown("B")
    /\ script' = "cit_restore"
    /\ UNCHANGED <<still, nextId, collecting, collectedEvents, windows>>

\* Lines 594-595: Instance()->HidlTearDown(); Instance()->HidlSetUp().
CitRestore ==
    /\ script = "cit_restore"
    /\ up' = <<"A">>
    /\ script' = "cit_activate2"
    /\ UNCHANGED <<still, nextId, collecting, collectedEvents, windows>>

\* Line 598.
CitActivate2 == SessionGoto("cit_activate2", "cit_collect")

\* Line 599: the restored environment's window and its assertion.
CitCollect == CollectBegin("cit_collect", "A", "cit_window")
CitWindow == CollectReturn("cit_window", "cit_assert")
CitAssert ==
    SessionGoto("cit_assert",
                IF NewSessionAsserted(Len(collectedEvents)) THEN "cit_deactivate2"
                                                            ELSE "cit_failed")

\* Line 600.
CitDeactivate2 == SessionGoto("cit_deactivate2", "cit_passed")

InitSession ==
    /\ Constructed
    /\ script = "cit_start"
    /\ registered = FALSE
    /\ sensorList \in ActivateTestSensors
    /\ budget = MaxSessionEvents

NextSession ==
    \/ SessionDeliver
    \/ CitStart \/ CitSetUpNew \/ CitActivate1
    \/ CitCollectOld \/ CitWindowOld \/ CitAssertOld
    \/ CitCollectNew \/ CitWindowNew \/ CitAssertNew
    \/ CitDeactivate1 \/ CitTearDownNew \/ CitRestore \/ CitActivate2
    \/ CitCollect \/ CitWindow \/ CitAssert \/ CitDeactivate2

SpecSession == InitSession /\ [][NextSession]_vars

\* ----------------------------------------------------------- SensorListValid
\* What SensorListValid leaves alone.
apart == <<collector, delivery, test, registered, lastEventTimestampMap,
           sensorList, sessions, mDirectChannelHandles, args, fi, mSensorHandles, calls, history>>

\* The descriptors of the runs: the one with every field as wanted (power,
\* the fifo counts and the delays on the boundary), and one per field that
\* is not.
Descriptors(h) ==
    LET ok == SensorInfoOf(h)
    IN  {ok,
         [ok EXCEPT !.fifoMaxEventCount = 1],
         [ok EXCEPT !.typeAsString = ""],
         [ok EXCEPT !.name = ""],
         [ok EXCEPT !.vendor = ""],
         [ok EXCEPT !.power = -1],
         [ok EXCEPT !.maxRange = 0],
         [ok EXCEPT !.type = "ADDITIONAL_INFO"],
         [ok EXCEPT !.type = "META_DATA"],
         [ok EXCEPT !.fifoReservedEventCount = 1],
         [ok EXCEPT !.minDelay = 1]}

\* The lists the interface returns: none, one or two descriptors.
DescriptorLists ==
    {<<>>} \cup {<<d>> : d \in Descriptors(1)}
           \cup {<<d[1], d[2]>> : d \in Descriptors(1) \X Descriptors(2)}

\* Line 285: EXPECT_GE(s.fifoMaxEventCount, s.fifoReservedEventCount).
FifoOrdered_Strict(max, reserved) == max > reserved
FifoOrdered(max, reserved) == max >= reserved

\* The EXPECT_* of lines 268-292 that fail for descriptor s.
FailedExpectations(s) ==
    {c \in {"typeAsString", "name", "vendor", "power", "maxRange", "type",
            "fifo", "delay"} :
       \/ c = "typeAsString" /\ s.typeAsString = ""
       \/ c = "name" /\ s.name = ""
       \/ c = "vendor" /\ s.vendor = ""
       \/ c = "power" /\ ~(0 <= s.power)
       \/ c = "maxRange" /\ ~(0 < s.maxRange)
       \/ c = "type" /\ (s.type = "ADDITIONAL_INFO" \/ s.type = "META_DATA")
       \/ c = "fifo" /\ ~FifoOrdered(s.fifoMaxEventCount, s.fifoReservedEventCount)
       \/ c = "delay" /\ ~(s.minDelay <= s.maxDelay)}

\* The helpers of lines 271, 289 and 294, which are not part of this file:
\* each may report a failure or not.
HelperExpectations ==
    {"assertTypeMatchStringType", "assertTypeMatchReportMode",
     "assertDelayMatchReportMode"}

\* Lines 259-296: one iteration of the loop, si being its i (from 0) and
\* list[i] the descriptor at si + 1.  Every check is an EXPECT_*, so a
\* failure is recorded and the iteration and the loop go on.
SensorListValidLoop ==
    /\ script = "slv_loop"
    /\ IF ~(si < Len(sensorList))
         THEN /\ script' = "slv_done"
              /\ UNCHANGED <<si, failures>>
         ELSE /\ \E helpers \in SUBSET HelperExpectations :
                   failures' = failures \cup
                       {<<si, c>> : c \in FailedExpectations(sensorList[si + 1]) \cup helpers}
              /\ si' = si + 1
              /\ script' = script
    /\ UNCHANGED apart

InitListValid ==
    /\ Constructed
    /\ script = "slv_loop"
    /\ registered = FALSE
    /\ sensorList \in DescriptorLists
    /\ budget = 0

NextListValid == SensorListValidLoop

SpecListValid == InitListValid /\ [][NextListValid]_vars

\* ------------------------------------------------------ direct channels
\* What the direct-channel wrappers leave alone.
aside == <<collector, delivery, test, script, registered, si, lastEventTimestampMap,
           sensorList, sessions, args, fi, failures, mSensorHandles, history>>

\* The channel handles the interface answers with: -1 with a failure, as a
\* rule, and the handles of two channels.
ChannelHandles == {-1, 1, 2}

\* Line 187: the handle is tracked if the interface reported OK.
ChannelTracked_Always(result) == TRUE
ChannelTracked(result) == result = "OK"

\* SensorsHidlTest::registerDirectChannel, lines 181-193: the interface
\* calls the lambda of line 186 once with its result and channel handle;
\* the lambda tracks the handle and calls cb with both.
RegisterDirectChannel(result, channelHandle) ==
    /\ mDirectChannelHandles' =
         IF ChannelTracked(result) THEN mDirectChannelHandles \cup {channelHandle}
                                   ELSE mDirectChannelHandles
    /\ calls' = calls \o
         << [fn |-> "registerDirectChannel", h |-> channelHandle, result |-> result],
            [fn |-> "cb", h |-> channelHandle, result |-> result] >>

\* SensorsHidlTest::unregisterDirectChannel, lines 140-142.
UnregisterDirectChannel(channelHandle, r) ==
    /\ mDirectChannelHandles' = mDirectChannelHandles
    /\ calls' = Append(calls, [fn |-> "unregisterDirectChannel", h |-> channelHandle,
                               result |-> r])

\* The wrapper calls made so far.
ChannelCalls == {i \in 1..Len(calls) : calls[i].fn # "cb"}

RegisterChannelCall ==
    /\ script = "channel"
    /\ Cardinality(ChannelCalls) < MaxChannelCalls
    /\ \E r \in Results : \E c \in ChannelHandles : RegisterDirectChannel(r, c)
    /\ UNCHANGED aside

UnregisterChannelCall ==
    /\ script = "channel"
    /\ Cardinality(ChannelCalls) < MaxChannelCalls
    /\ \E r \in Results : \E c \in ChannelHandles : UnregisterDirectChannel(c, r)
    /\ UNCHANGED aside

InitChannel ==
    /\ Constructed
    /\ script = "channel"
    /\ registered = FALSE
    /\ sensorList = <<>>
    /\ budget = 0

NextChannel == RegisterChannelCall \/ UnregisterChannelCall

SpecChannel == InitChannel /\ [][NextChannel]_vars

\* ------------------------------------------------ getInvalidSensorHandle
\* Sensors in a list whose invalid handle is asked for.
MaxListedSensors == 3

\* The largest and the smallest int32_t, the type of sensorHandle and of
\* maxHandle (line 248).
Int32Max == 2147483647
Int32Min == (-Int32Max) - 1

\* The handles of those lists: the ends of int32_t and one handle on each
\* side of zero.
Int32Handles == {Int32Min, -1, 1, Int32Max}

RECURSIVE HandleLists(_)
\* The lists of n sensors with such handles.
HandleLists(n) ==
    IF n = 0 THEN {<<>>}
    ELSE {Append(l, [SensorInfoOf(1) EXCEPT !.sensorHandle = h]) :
            l \in HandleLists(n - 1), h \in Int32Handles}

\* Line 252, `return maxHandle + 1`, on int32_t: the sum where it fits; a
\* signed overflow otherwise, which is undefined: the build wraps the sum
\* around to the smallest int32_t, or traps where overflow is checked.
ReturnedInvalidHandles(list) ==
    IF MaxHandle(list, 1) = Int32Max
    THEN {[result |-> "returned", h |-> Int32Min], [result |-> "trapped", h |-> 0]}
    ELSE {[result |-> "returned", h |-> GetInvalidSensorHandle(list)]}

\* A call of getInvalidSensorHandle, lines 246-253.
GetInvalidSensorHandleCall ==
    /\ script = "invalid_handle"
    /\ calls = <<>>
    /\ \E out \in ReturnedInvalidHandles(sensorList) :
         calls' = <<[fn |-> "getInvalidSensorHandle", h |-> out.h, result |-> out.result]>>
    /\ UNCHANGED <<mDirectChannelHandles, aside>>

InitInvalidHandle ==
    /\ Constructed
    /\ script = "invalid_handle"
    /\ registered = FALSE
    /\ sensorList \in UNION {HandleLists(n) : n \in 0..MaxListedSensors}
    /\ budget = 0

NextInvalidHandle == GetInvalidSensorHandleCall

SpecInvalidHandle == InitInvalidHandle /\ [][NextInvalidHandle]_vars

\* ------------------------------------------- the timeout of NoStaleEvents
\* SensorInfo::minDelay of the listed sensors, in microseconds: -1 of a
\* one-shot sensor, 0 of an on-change sensor, and two sampling periods.
MinDelays == {-1, 0, 2500, 10000}

RECURSIVE DelayLists(_)
\* The lists of n sensors with such delays.
DelayLists(n) ==
    IF n = 0 THEN {<<>>}
    ELSE {Append(l, [SensorInfoOf(Len(l) + 1) EXCEPT !.minDelay = d]) :
            l \in DelayLists(n - 1), d \in MinDelays}

RECURSIVE MaxMinDelay(_, _)
\* The loop of lines 752-755 from index i on; maxMinDelay starts at 0.
MaxMinDelay(list, i) ==
    IF i > Len(list) THEN 0
    ELSE LET rest == MaxMinDelay(list, i + 1)
         IN  IF list[i].minDelay > rest THEN list[i].minDelay ELSE rest

\* Lines 751-763 of NoStaleEvents: the call of waitForEvents with its
\* second argument, which waitForEvents (line 77) takes as int32_t
\* timeoutMs and hands to std::chrono::milliseconds (line 80).
StaleTimeoutCall ==
    /\ script = "ns_timeout"
    /\ calls = <<>>
    /\ calls' = <<[fn |-> "waitForEvents",
                   timeoutMs |-> NoStaleTimeout(MaxMinDelay(sensorList, 1))]>>
    /\ UNCHANGED <<mDirectChannelHandles, aside>>

InitStaleTimeout ==
    /\ Constructed
    /\ script = "ns_timeout"
    /\ registered = FALSE
    /\ sensorList \in UNION {DelayLists(n) : n \in 0..MaxListedSensors}
    /\ budget = 0

NextStaleTimeout == StaleTimeoutCall

SpecStaleTimeout == InitStaleTimeout /\ [][NextStaleTimeout]_vars

\* ----------------------------------------------------------------- claims
\* What getFlushCount(h) and getEvents(h) would return now.
FlushCountOf(h) == IF h \in DOMAIN mFlushMap THEN mFlushMap[h] ELSE 0
EventsOf(h) == IF h \in DOMAIN mEventMap THEN mEventMap[h] ELSE <<>>

IsPrefix(s, t) == Len(s) <= Len(t) /\ \A i \in 1..Len(s) : s[i] = t[i]

\* Delivery threads inside onEvent with a marker for h not yet counted.
PendingMarkers(h) ==
    Cardinality({d \in Deliverers :
        dev[d].sensorHandle = h /\ dpc[d] \in {"f_lock", "f_read", "f_write"}})

\* The event a delivery thread holds mEventMutex for and has not stored yet.
PendingPush(h) ==
    IF \E d \in Deliverers : dpc[d] = "e_push" /\ dev[d].sensorHandle = h
      THEN <<dev[CHOOSE d \in Deliverers :
                    dpc[d] = "e_push" /\ dev[d].sensorHandle = h]>>
      ELSE <<>>

WaitOps == {"waitForFlushEvents", "waitForEvents"}

\* The predicate of a wait call c, on the maps as they are now.
PredicateNow(c) ==
    IF c.op = "waitForFlushEvents"
      THEN \A i \in 1..Len(c.sensors) : FlushCountOf(c.sensors[i]) >= c.n
      ELSE \A i \in 1..Len(c.sensors) : Len(EventsOf(c.sensors[i])) >= 1

\* C1: with no reset() in between, the flush count of every handle is the
\* number of flush-completion markers passed to onEvent for it, less those
\* whose onEvent call has not reached its increment yet: no marker is lost
\* and none is counted twice, whatever the delivery threads, a getter or a
\* waiter do meanwhile.
C1_FlushCountExact ==
    \A h \in Handles : FlushCountOf(h) + PendingMarkers(h) = markers[h]

\* Both delivery threads have counted a marker for handle 1, the second
\* while the first was inside onEvent and while the test thread is inside
\* getFlushCount, waiting for the lock.
C1_Witness ==
    /\ FlushCountOf(1) = 2
    /\ dpc["d2"] = "f_unlock"
    /\ tpc = "gf_lock"

\* C2 as stated: no onEvent call is on the path that changes neither the
\* flush counters nor the data-event sequences.
C2_NoEventIgnored == \A d \in Deliverers : dpc[d] # "skip"

\* C2 as amended: a flush-completion marker (ADDITIONAL_INFO with
\* META_DATA_FLUSH_COMPLETE) adds one to the flush count of its handle and
\* is stored in no sequence; an event of any other sensorType is appended
\* to the sequence of its handle; an ADDITIONAL_INFO event with another
\* meta.what changes nothing; and no event takes a path other than its own.
C2_OneEffectPerClass ==
    \A d \in Deliverers :
      LET ev == dev[d]
          marker == ev.sensorType = "ADDITIONAL_INFO"
                      /\ ev.what = "META_DATA_FLUSH_COMPLETE"
          data == ev.sensorType # "ADDITIONAL_INFO"
      IN  /\ dpc[d] \in {"f_lock", "f_read", "f_write", "f_notify", "f_unlock"}
                => marker
          /\ dpc[d] \in {"e_lock", "e_push", "e_notify", "e_unlock"} => data
          /\ dpc[d] = "skip" => ~marker /\ ~data
          /\ dpc[d] \in {"f_notify", "f_unlock"} =>
                /\ FlushCountOf(ev.sensorHandle) = dtmp[d] + 1
                /\ \A h \in Handles : \A i \in 1..Len(EventsOf(h)) : EventsOf(h)[i] # ev
          /\ dpc[d] \in {"e_notify", "e_unlock"} =>
                /\ Len(EventsOf(ev.sensorHandle)) >= 1
                /\ EventsOf(ev.sensorHandle)[Len(EventsOf(ev.sensorHandle))] = ev
                /\ Cardinality({i \in 1..Len(EventsOf(ev.sensorHandle)) :
                                    EventsOf(ev.sensorHandle)[i] = ev}) = 1

\* An onEvent call returns having changed nothing, while the other thread
\* has stored a data event that carries META_DATA_FLUSH_COMPLETE.
C2_Witness ==
    /\ dpc["d2"] = "skip"
    /\ dpc["d1"] = "e_unlock"
    /\ dev["d1"].what = "META_DATA_FLUSH_COMPLETE"

\* C3: the sequence of every handle is the data events passed to onEvent
\* for it since construction or the last reset(), in the order in which
\* their calls took mEventMutex (the one being pushed excepted); so within
\* one such period nothing is reordered, merged or removed, and what
\* getEvents(h) returned stays a prefix of the sequence.
C3_EventsInLockOrder ==
    /\ \A h \in Handles : EventsOf(h) \o PendingPush(h) = lockOrder[h]
    /\ \A h \in Handles : \A i \in 1..Len(lockOrder[h]) :
          /\ lockOrder[h][i].sensorHandle = h
          /\ lockOrder[h][i].sensorType # "ADDITIONAL_INFO"
    /\ (tpc = "idle" /\ lastOp.op = "getEvents")
          => IsPrefix(retEvents, EventsOf(lastOp.h))

\* getEvents(1) returned one event, a second one has been appended since,
\* and the second was passed to onEvent before the first.
C3_Witness ==
    /\ tpc = "idle" /\ lastOp.op = "getEvents" /\ lastOp.h = 1
    /\ Len(retEvents) = 1
    /\ Len(EventsOf(1)) = 2
    /\ EventsOf(1)[1].timestamp > EventsOf(1)[2].timestamp


BlockPcs == {"wf_block", "wf_wait", "wf_relock", "we_block", "we_wait", "we_relock"}

\* C4: a wait whose predicate holds when it is called never blocks, and
\* returns with the predicate found true, whatever the timeout (0 too).
C4_LevelTriggered ==
    /\ (tpc \in WaitPcs /\ predAtCall) => (~blocked /\ tpc \notin BlockPcs)
    /\ (tpc = "idle" /\ lastOp.op \in WaitOps /\ lastOp.predAtCall)
          => (~lastOp.blocked /\ retWait)

\* waitForFlushEvents was called with timeout 0 when handles 1 and 2 had a
\* flush count of 1 already, and has returned.
C4_Witness ==
    /\ tpc = "idle"
    /\ lastOp.op = "waitForFlushEvents"
    /\ lastOp.sensors = <<1, 2>>
    /\ lastOp.predAtCall
    /\ lastOp.expired
    /\ retWait

\* C5: every wait returns, and when it has returned its predicate holds
\* or its deadline has passed; wait_for reports true only with the
\* predicate true.  (The deadline is finite: it passes, SpecFair.)
C5_WaitEnds ==
    /\ (tpc \in WaitPcs) ~> (tpc = "idle")
    /\ [](tpc = "idle" /\ lastOp.op \in WaitOps
            => /\ PredicateNow(lastOp) \/ lastOp.expired
               /\ retWait => PredicateNow(lastOp))

\* waitForFlushEvents for handles 1 and 2 blocked, was woken by the marker
\* for handle 1, found the predicate false, and returned after the deadline
\* with the predicate still false.
C5_Witness ==
    /\ tpc = "idle"
    /\ lastOp.op = "waitForFlushEvents"
    /\ lastOp.sensors = <<1, 2>>
    /\ lastOp.blocked
    /\ lastOp.expired
    /\ ~retWait
    /\ FlushCountOf(1) = 1

\* A wait is in progress and its predicate holds.
WaitSatisfied == tpc \in WaitPcs /\ PredicateNow(targ)

\* C6: a wait whose predicate has become true before the deadline returns
\* with the predicate true, without the help of the timeout or of a
\* spurious wake-up (SpecPatient is fair to neither).
C6_NoLostWakeup ==
    (WaitSatisfied /\ ~expired)
        ~> ((tpc = "idle" /\ lastOp.op \in WaitOps /\ retWait) \/ expired)

\* waitForEvents blocked with no event for handle 1, the event arrived, and
\* the wait returned true before its deadline.
C6_Witness ==
    /\ tpc = "idle"
    /\ lastOp.op = "waitForEvents"
    /\ lastOp.blocked
    /\ ~lastOp.predAtCall
    /\ ~lastOp.expired
    /\ retWait

Threads == Deliverers \cup {Tester}

\* C7: no thread holds both mutexes; where the predicates lock again the
\* thread is the owner already; and whoever owns a mutex can take a step,
\* so no thread waits for a mutex for ever.
C7_NoNestingNoDeadlock ==
    /\ \A t \in Threads : ~(mFlushMutex.owner = t /\ mEventMutex.owner = t)
    /\ tpc = "wf_pred" => mFlushMutex = [owner |-> Tester, count |-> 1]
    /\ tpc = "wf_gf" => mFlushMutex = [owner |-> Tester, count |-> 2]
    /\ tpc = "we_pred" => mEventMutex = [owner |-> Tester, count |-> 1]
    /\ tpc = "we_ge" => mEventMutex = [owner |-> Tester, count |-> 2]
    /\ \A d \in Deliverers :
          (mFlushMutex.owner = d \/ mEventMutex.owner = d) => ENABLED OnEventStep(d)
    /\ (mFlushMutex.owner = Tester \/ mEventMutex.owner = Tester) => ENABLED TestStep
    /\ mFlushMutex.owner = NoThread <=> mFlushMutex.count = 0
    /\ mEventMutex.owner = NoThread <=> mEventMutex.count = 0

\* The test thread holds mFlushMutex twice inside the predicate of
\* waitForFlushEvents while one delivery thread holds mEventMutex and the
\* other waits for mFlushMutex.
C7_Witness ==
    /\ tpc = "wf_gf"
    /\ mFlushMutex.count = 2
    /\ mEventMutex.owner = "d1"
    /\ dpc["d2"] = "f_lock"

\* C8: the getters return a count and a sequence, never a failure; for a
\* handle with no marker (no stored event) since construction or the last
\* reset() they return 0 (the empty sequence).
C8_GettersDefault ==
    /\ (tpc = "idle" /\ lastOp.op = "getFlushCount")
          => /\ retCount >= 0
             /\ markers[lastOp.h] = 0 => retCount = 0
    /\ (tpc = "idle" /\ lastOp.op = "getEvents")
          => (lockOrder[lastOp.h] = <<>> => retEvents = <<>>)

\* getFlushCount(2) has returned 0 for a handle the map had no entry for,
\* while handle 1 has a marker counted.
C8_Witness ==
    /\ tpc = "idle"
    /\ lastOp.op = "getFlushCount" /\ lastOp.h = 2
    /\ retCount = 0
    /\ markers[2] = 0
    /\ FlushCountOf(1) = 1

\* C9: after a reset() that ran with no delivery in flight, every flush
\* count and every sequence holds what was delivered since that reset()
\* and nothing from before it: 0 and empty when it returns, and counted
\* from zero afterwards.
C9_ResetClears ==
    (tpc = "idle" /\ lastOp.op = "reset") =>
        \A h \in Handles :
          /\ FlushCountOf(h) + PendingMarkers(h) = markers[h]
          /\ EventsOf(h) \o PendingPush(h) = lockOrder[h]
          /\ (markers[h] = 0 /\ lockOrder[h] = <<>>)
                => (FlushCountOf(h) = 0 /\ EventsOf(h) = <<>>)

\* reset() cleared a collector that had collected something, and the one
\* marker delivered after it is counted as the first.
C9_Witness ==
    /\ tpc = "idle"
    /\ lastOp.op = "reset" /\ lastOp.dirty
    /\ FlushCountOf(1) = 1
    /\ NoDeliveryInFlight


\* C10: in the NoStaleEvents scenario reset() never accesses mFlushMap or
\* mEventMap while an onEvent call is reading or writing the same map:
\* the test thread is never at mFlushMap.clear() while a delivery thread is
\* inside mFlushMap[h]++, and never at mEventMap.clear() while a delivery
\* thread is inside mEventMap[h].push_back.
C10_NoResetRace ==
    /\ ~(tpc = "reset_flush" /\ \E d \in Deliverers : InFlushMap(d))
    /\ ~(tpc = "reset_event" /\ \E d \in Deliverers : InEventMap(d))


\* The flush calls made for handle h, and those among them that returned r.
FlushCallsOf(h) == {i \in 1..Len(calls) : calls[i].fn = "flush" /\ calls[i].h = h}
FlushCallsWith(h, r) == {i \in FlushCallsOf(h) : calls[i].result = r}

\* runFlushTest has returned, with no assertion failed or with one failed.
FlushPassed == script = "rf_passed"
FlushFailed == script = "rf_failed"

\* Every sensor of the run was flushed flushCalls times and each call
\* returned r.
AllFlushesReturned(r) ==
    \A i \in 1..Len(args.sensors) :
      /\ Cardinality(FlushCallsOf(args.sensors[i])) = args.flushCalls
      /\ FlushCallsWith(args.sensors[i], r) = FlushCallsOf(args.sensors[i])

\* For every sensor of the run exactly n markers were passed to onEvent.
MarkersDelivered(n) ==
    \A i \in 1..Len(args.sensors) : markers[args.sensors[i]] = n

\* C11: runFlushTest(sensors, true, N, N, OK) passes if and only if every
\* one of the N flush calls per sensor returned OK and exactly N markers
\* per sensor were passed to the callback while it was registered; with
\* N-1 or N+1 markers for a sensor it fails.
C11_FlushCountLaw ==
    (args # NoArgs /\ args.activateSensor /\ args.expectedResponse = "OK"
        /\ args.expectedFlushCount = args.flushCalls)
    => /\ FlushPassed => (AllFlushesReturned("OK") /\ MarkersDelivered(args.flushCalls))
       /\ FlushFailed => ~(AllFlushesReturned("OK") /\ MarkersDelivered(args.flushCalls))

\* runFlushTest(<<1>>, true, kFlushes, kFlushes, OK) has failed though every
\* flush returned OK and the wait returned with kFlushes markers counted:
\* one more marker arrived before the callback was unregistered.
C11_Witness ==
    /\ FlushFailed
    /\ args.sensors = <<1>> /\ args.flushCalls = kFlushes
    /\ args.expectedFlushCount = kFlushes
    /\ AllFlushesReturned("OK")
    /\ markers[1] = kFlushes + 1
    /\ ~registered

\* C12: a flush scenario that expects the rejection (BAD_VALUE, no marker)
\* passes only if every flush call returned BAD_VALUE and the count of
\* every sensor was 0 when it was checked; as soon as a flush call returns
\* another result the scenario has failed, and it fails with one marker
\* counted for a sensor.
C12_FlushRejectionLaw ==
    (args # NoArgs /\ args.expectedResponse = "BAD_VALUE")
    => /\ FlushPassed => (AllFlushesReturned("BAD_VALUE") /\ MarkersDelivered(0))
       /\ (\E h \in Handles : FlushCallsWith(h, "OK") # {}) => FlushFailed
       /\ (script \in {"rf_check", "rf_assert", "rf_passed"} /\ tpc = "idle")
          => \A i \in 1..Len(args.sensors) :
                i < si => FlushCountOf(args.sensors[i]) = 0

\* The flush of an inactive sensor was rejected, but a marker for it was
\* counted before the callback was unregistered: the scenario has failed
\* in its final check.
C12_Witness ==
    /\ FlushFailed
    /\ args.expectedResponse = "BAD_VALUE" /\ ~args.activateSensor
    /\ AllFlushesReturned("BAD_VALUE")
    /\ FlushCountOf(1) = 1
    /\ ~registered


\* The scenario has returned and its EventCallback, a local of the
\* scenario, is destroyed.
CallbackDestroyed == script \in {"rf_passed", "rf_failed", "ns_done", "ns_failed"}

\* C13: on every exit path of runFlushTest and of NoStaleEvents, a failed
\* ASSERT included, the callback is unregistered before it goes out of
\* scope: the environment holds no registration of a destroyed callback.
C13_UnregisteredOnExit == CallbackDestroyed => ~registered


\* The handles activate was called with and enabled = true, so far.
EverEnabled ==
    {calls[i].h : i \in {j \in 1..Len(calls) :
                            calls[j].fn = "activate" /\ calls[j].enabled}}

\* C14: mSensorHandles holds exactly the handles that activate was ever
\* called with and enabled = true, whatever the interface returned; hence
\* a call with enabled = false neither adds nor removes a handle.
C14_ActivationTracked == mSensorHandles = EverEnabled

\* The invalid handle is tracked though the interface rejected it, and it
\* stayed tracked over the activate(invalid, false) that followed.
C14_Witness ==
    /\ Len(calls) >= 2
    /\ calls[1] = [fn |-> "activate", h |-> GetInvalidSensorHandle(sensorList),
                   enabled |-> TRUE, result |-> "BAD_VALUE"]
    /\ calls[2].h = calls[1].h /\ ~calls[2].enabled
    /\ calls[1].h \in mSensorHandles


\* SetOperationMode or InjectSensorEventData has returned.
ModeTestEnded == script \in {"som_passed", "som_failed", "isd_done", "isd_failed"}

\* The setOperationMode calls so far, by index in calls.
ModeCalls == {i \in 1..Len(calls) : calls[i].fn = "setOperationMode"}

\* The setOperationMode calls the interface accepted.
AcceptedModeCalls == {i \in ModeCalls : calls[i].result = "OK"}

\* The last accepted mode is DATA_INJECTION.
LeftInInjection ==
    /\ AcceptedModeCalls # {}
    /\ LET last == CHOOSE i \in AcceptedModeCalls : \A j \in AcceptedModeCalls : j <= i
       IN  calls[last].mode = "DATA_INJECTION"

\* C15: when SetOperationMode or InjectSensorEventData has ended, every
\* accepted setOperationMode(DATA_INJECTION) is followed by a
\* setOperationMode(NORMAL) call, also after a rejected injectSensorData;
\* and if the last accepted mode is DATA_INJECTION then the last call made
\* is the restoring setOperationMode(NORMAL) and it was rejected.
C15_ModesPaired ==
    ModeTestEnded =>
      /\ \A i \in AcceptedModeCalls :
           calls[i].mode = "DATA_INJECTION" =>
             \E j \in ModeCalls : j > i /\ calls[j].mode = "NORMAL"
      /\ LeftInInjection =>
           /\ calls[Len(calls)].fn = "setOperationMode"
           /\ calls[Len(calls)].mode = "NORMAL"
           /\ calls[Len(calls)].result # "OK"

\* InjectSensorEventData ended after a rejected injection, with NORMAL
\* restored.
C15_Witness ==
    /\ script = "isd_done"
    /\ failures # {}
    /\ \E i \in AcceptedModeCalls : calls[i].mode = "DATA_INJECTION"
    /\ ~LeftInInjection


\* The activate calls so far, in order.
ActivateTrace ==
    LET IsActivate(c) == c.fn = "activate"
    IN  SelectSeq(calls, IsActivate)

\* What the claim's sequence looks like for the listed sensors: on, on,
\* off, off with OK for each, then on, off with BAD_VALUE for the invalid
\* handle.
PrescribedActivateTrace ==
    LET n == Len(sensorList)
    IN  [k \in 1..(4 * n + 2) |->
           IF k <= 4 * n
             THEN [fn |-> "activate", h |-> sensorList[((k - 1) \div 4) + 1].sensorHandle,
                   enabled |-> ((k - 1) % 4) < 2, result |-> "OK"]
             ELSE [fn |-> "activate", h |-> GetInvalidSensorHandle(sensorList),
                   enabled |-> k = 4 * n + 1, result |-> "BAD_VALUE"]]

\* Every listed sensor's last activate call was activate(h, false) and
\* returned OK.
AllLastSetInactive ==
    \A h \in ListedHandles(sensorList) :
      \E i \in 1..Len(ActivateTrace) :
        /\ ActivateTrace[i] = [fn |-> "activate", h |-> h, enabled |-> FALSE,
                               result |-> "OK"]
        /\ \A j \in (i + 1)..Len(ActivateTrace) : ActivateTrace[j].h # h

\* A failed run ended at an activate call whose result was not the
\* prescribed one, every call before it having returned the prescribed one.
FailedAtDeviation ==
    LET n == Len(ActivateTrace)
    IN  /\ n \in 1..Len(PrescribedActivateTrace)
        /\ SubSeq(ActivateTrace, 1, n - 1) = SubSeq(PrescribedActivateTrace, 1, n - 1)
        /\ ActivateTrace[n] = [PrescribedActivateTrace[n] EXCEPT !.result = ActivateTrace[n].result]
        /\ ActivateTrace[n].result # PrescribedActivateTrace[n].result

\* C16 as stated: Activate passes exactly when the four calls per listed
\* sensor returned OK and both calls with the invalid handle returned
\* BAD_VALUE.  Violated: with no sensor listed the test passes and has
\* called nothing.
C16_PassesIffAllHold ==
    /\ script = "at_passed" => ActivateTrace = PrescribedActivateTrace
    /\ script = "at_failed" => FailedAtDeviation

\* C16, amended: with at least one sensor listed, Activate passes exactly
\* when on, on, off, off returned OK for every listed sensor and on, off
\* returned BAD_VALUE for the invalid handle, and then every listed sensor
\* was last set inactive; with no sensor listed it passes without a call.
C16_ActivateIdempotence ==
    /\ (script = "at_passed" /\ Len(sensorList) > 0) =>
          ActivateTrace = PrescribedActivateTrace /\ AllLastSetInactive
    /\ (script = "at_passed" /\ Len(sensorList) = 0) => calls = <<>>
    /\ script = "at_failed" => FailedAtDeviation

\* Activate passed over two listed sensors.
C16_Witness ==
    /\ script = "at_passed"
    /\ Len(sensorList) = 2
    /\ Len(ActivateTrace) = 10


\* The check of lines 784-786 has just passed for the sensor before si:
\* retEvents is what its getEvents returned.
FreshCheckPassed ==
    /\ script = "ns_front" /\ tpc = "idle"
    /\ si > 1
    /\ Len(retEvents) >= 1

\* C17: NoStaleEvents lets a sensor pass only if its first event after the
\* reactivation is stamped at least the quiescent interval, less a small
\* multiple of the sampling period, after its last event before the
\* deactivation, both in nanoseconds.  The slack is taken as five sampling
\* periods, which leaves one second.
C17_StalenessLaw ==
    FreshCheckPassed =>
      retEvents[1].timestamp
          - TimestampMapIndex(lastEventTimestampMap, StaleSensors[si - 1])
        >= QuiescentNs - (5 * StaleMinDelay * NsPerUs)

\* C18: NoStaleEvents reads back() (line 771) and front() (line 784) only
\* of a sequence that has an event; a sensor without an event in the
\* window was reported by an assertion before.
C18_NoEmptyRead ==
    (tpc = "idle" /\ script \in {"ns_save", "ns_check"}) => Len(retEvents) >= 1


\* The events a collectEvents call returned.
IdsOf(w) == {w.events[i] : i \in 1..Len(w.events)}

\* CallInitializeTwice ran to its end with sensors listed.
SessionsPassed == script = "cit_passed" /\ Len(sensorList) > 0

DescriptorValid(s) ==
    /\ s.fifoMaxEventCount >= s.fifoReservedEventCount
    /\ s.minDelay <= s.maxDelay
    /\ s.power >= 0
    /\ s.maxRange > 0
    /\ s.name # "" /\ s.vendor # "" /\ s.typeAsString # ""
    /\ s.type \notin {"ADDITIONAL_INFO", "META_DATA"}

\* The recorded failures that do not come from the helpers.
DirectFailures == {f \in failures : f[2] \notin HelperExpectations}

InFlushWait == script = "rf_unregister" /\ tpc \in WaitPcs

\* C21: the wait of runFlushTest is for expectedFlushCount markers per
\* sensor; when expectedFlushCount is 0 the predicate holds at the call
\* and the wait returns without blocking.
C21_WaitsForExpectedCount ==
    (InFlushWait /\ args.expectedFlushCount = 0) => (~blocked /\ tpc \notin BlockPcs)

\* The wait of line 629 returned false: its deadline passed with the
\* predicate false.
FlushWaitTimedOut ==
    \E i \in 1..Len(calls) : calls[i].fn = "waitForFlushEvents" /\ ~calls[i].result

\* runFlushTest has come to its end past the wait: it passed, or the
\* assertion of line 634 failed.
FlushCheckedPassed == script = "rf_passed"
FlushCheckedFailed == script = "rf_failed" /\ ~registered

\* C22: once the wait of runFlushTest is over, timed out or not, the
\* scenario passes exactly when every sensor's flush count equals
\* expectedFlushCount and fails exactly when some sensor's count differs
\* (a count above the expected one included).
C22_TimeoutNotAnError ==
    /\ FlushCheckedPassed =>
         \A i \in 1..Len(args.sensors) :
           FlushCountOf(args.sensors[i]) = args.expectedFlushCount
    /\ FlushCheckedFailed =>
         \E i \in 1..Len(args.sensors) :
           FlushCountOf(args.sensors[i]) # args.expectedFlushCount

\* runFlushTest(<<1>>, true, 1, 1, OK) passed although its wait timed out:
\* the marker came after the deadline and before the unregistration.
C22_Witness ==
    /\ FlushCheckedPassed
    /\ FlushWaitTimedOut
    /\ args.sensors = <<1>> /\ args.activateSensor
    /\ args.flushCalls = 1 /\ args.expectedFlushCount = 1
    /\ markers[1] = 1


\* The registerDirectChannel answers of the interface, by index in calls.
Registrations == {i \in 1..Len(calls) : calls[i].fn = "registerDirectChannel"}

\* C23: mDirectChannelHandles holds exactly the channel handles the
\* interface returned with OK, so a failed registration and an
\* unregisterDirectChannel leave it as it was; and each answer of the
\* interface is followed by one call of cb with the same result and handle,
\* cb being called at no other time.
C23_ChannelsTracked ==
    /\ mDirectChannelHandles = {calls[i].h : i \in {j \in Registrations : calls[j].result = "OK"}}
    /\ \A i \in Registrations :
         /\ i < Len(calls)
         /\ calls[i + 1] = [fn |-> "cb", h |-> calls[i].h, result |-> calls[i].result]
    /\ \A i \in 1..Len(calls) : calls[i].fn = "cb" => (i > 1 /\ (i - 1) \in Registrations)

\* Channel 1 was registered, a registration that failed with handle 2
\* followed and channel 1 was unregistered: 1 alone is tracked.
C23_Witness ==
    /\ Len(calls) = 5
    /\ calls[1] = [fn |-> "registerDirectChannel", h |-> 1, result |-> "OK"]
    /\ calls[3] = [fn |-> "registerDirectChannel", h |-> 2, result |-> "BAD_VALUE"]
    /\ calls[5] = [fn |-> "unregisterDirectChannel", h |-> 1, result |-> "OK"]
    /\ mDirectChannelHandles = {1}


\* C24: getInvalidSensorHandle returns, and the handle it returns is the
\* handle of no listed sensor, whatever int32 handles the list holds.
C24_InvalidHandleUnlisted ==
    \A i \in 1..Len(calls) :
        calls[i].fn = "getInvalidSensorHandle" =>
            /\ calls[i].result = "returned"
            /\ calls[i].h \notin ListedHandles(sensorList)


\* C25: the timeout NoStaleEvents passes to waitForEvents is, in the
\* milliseconds of the parameter, five hundred milliseconds plus five times
\* the largest minDelay of the listed sensors; minDelay counting
\* microseconds, the two sides are compared in microseconds.
C25_TimeoutInMilliseconds ==
    \A i \in 1..Len(calls) :
        calls[i].fn = "waitForEvents" =>
            calls[i].timeoutMs * 1000 = (500 * 1000) + (5 * MaxMinDelay(sensorList, 1))


\* What getFlushCount(h) and getEvents(h) would return now.
ObservedCount(h) == FlushMapIndex(mFlushMap, h)
ObservedEvents(h) == EventMapIndex(mEventMap, h)

\* Delivery thread d takes this step inside an onEvent call for handle h
\* whose event satisfies the classification.
MarkerStepFor(h) ==
    \E d \in Deliverers :
        /\ dpc'[d] # dpc[d]
        /\ dev[d] # NoEvent /\ dev[d].sensorHandle = h /\ IsFlushComplete(dev[d])
DataStepFor(h) ==
    \E d \in Deliverers :
        /\ dpc'[d] # dpc[d]
        /\ dev[d] # NoEvent /\ dev[d].sensorHandle = h
        /\ ~IsFlushComplete(dev[d]) /\ IsStored(dev[d])

\* A step changes the observed count of h only as a step of an onEvent call
\* with a marker for h, and the observed sequence of h only as a step of an
\* onEvent call with a data event for h; reset() apart, which clears both.
\* A step of a getter or of a wait therefore changes neither.
FrameStep ==
    \A h \in Handles :
        /\ FlushMapIndex(mFlushMap', h) # ObservedCount(h) =>
               (tpc \in ResetPcs \/ MarkerStepFor(h))
        /\ EventMapIndex(mEventMap', h) # ObservedEvents(h) =>
               (tpc \in ResetPcs \/ DataStepFor(h))

\* C26: an onEvent call for handle h changes only the state of h, a marker
\* only its flush count and a data event only its sequence; getFlushCount,
\* getEvents, waitForFlushEvents and waitForEvents change no count and no
\* sequence as the getters show them, though they may insert a zero or
\* empty entry.
C26_DemultiplexingFrame == [][FrameStep]_vars

\* A marker and a data event for handle 1 have been recorded and
\* getFlushCount(2) has inserted a zero entry for handle 2, whose sequence
\* is still empty.
C26_Witness ==
    /\ ObservedCount(1) = 1
    /\ Len(ObservedEvents(1)) = 1
    /\ 2 \in DOMAIN mFlushMap /\ mFlushMap[2] = 0
    /\ ObservedEvents(2) = <<>>
    /\ lastOp.op = "getFlushCount" /\ lastOp.h = 2
    /\ tpc = "idle"

====
